---- MODULE Spec2Model ----
(***************************************************************************)
(* A model of sharp's output side (lib/output.js) and of the stream-input  *)
(* half of lib/input.js: the Job Options record, the option resolvers, and *)
(* the execution dispatcher (_pipeline) with its three delivery modes.     *)
(***************************************************************************)
EXTENDS Integers, Sequences, FiniteSets, TLC

VARIABLES
  options,           \* this.options, the Job Options record (with options.input)
  build,             \* capability flags of the engine build (constructor.format / .versions)
  streamInFinished,  \* this.streamInFinished
  writable,          \* the Writable side: [ended, finished] (finished = writableFinished)
  finishListeners,   \* listeners registered for 'finish', in registration order
  jobs,              \* one record per toBuffer / toFile / _read / metadata / stats call that returned
  engine,            \* the engine invocations made so far, in order
  readable,          \* the Readable side: [queue, eof, endEmitted, endListeners]
  events,            \* events and pushes of the Readable side, in order
  last,              \* the most recent call: its name, arguments, outcome and the options before it
  hist               \* history counters: chunks accepted, writes, pulls and resolver calls made

vars == <<options, build, streamInFinished, writable, finishListeners, jobs, engine,
          readable, events, last, hist>>

-----------------------------------------------------------------------------
(* Bounds of the model *)

MaxJobs == 2
MaxWrites == 2
MaxPulls == 2
MaxCalls == 2
MaxColourCalls == 1

-----------------------------------------------------------------------------
(* JavaScript values.  A number is the rational n/d with d > 0; null is    *)
(* not part of the value universe.                                          *)

Undefined == [t |-> "undefined"]
Bool(b) == [t |-> "boolean", v |-> b]
Str(s) == [t |-> "string", v |-> s]
Num(n, d) == [t |-> "number", n |-> n, d |-> d]
Integer(n) == Num(n, 1)
Obj(r) == [t |-> "object", v |-> r]
Arr(s) == [t |-> "array", v |-> s]
Fn == [t |-> "function"]
Buf(bytes) == [t |-> "buffer", v |-> bytes]
EmptyObj == [t |-> "object", v |-> <<>>]

\* options.key : a key the object does not carry reads as undefined
Get(a, k) == IF a.t = "object" /\ k \in DOMAIN a.v THEN a.v[k] ELSE Undefined

\* JavaScript truthiness, as used by `a || b`
Truthy(x) ==
  CASE x.t = "undefined" -> FALSE
    [] x.t = "boolean" -> x.v
    [] x.t = "number" -> x.n # 0
    [] x.t = "string" -> x.v # ""
    [] OTHER -> TRUE

(* The option predicates of lib/is.js *)
isDefined(x) == x.t # "undefined"
isObject(x) == x.t \in {"object", "array", "buffer"}
isPlainObject(x) == x.t = "object"
isFn(x) == x.t = "function"
isBool(x) == x.t = "boolean"
isString(x) == x.t = "string"
isNumber(x) == x.t = "number"
isInteger(x) == x.t = "number" /\ x.d = 1
isBuffer(x) == x.t = "buffer"
isArray(x) == x.t = "array"
inRange(x, min, max) == x.n >= min * x.d /\ x.n <= max * x.d
inArray(x, list) == x \in list

-----------------------------------------------------------------------------
(* Strings that are file paths are records [abs, segs, ext]: the segments  *)
(* of the path, the last one being the file's base name, and the extension *)
(* of the file.  The empty string is the path with no segment.             *)

Path(abs, segs, ext) == [abs |-> abs, segs |-> segs, ext |-> ext]
EmptyString == Path(FALSE, <<>>, "")
Cwd == <<"cwd">>

RECURSIVE Normalise(_, _)
\* node:path normalisation of a segment list: '.' is dropped, '..' pops
Normalise(segs, acc) ==
  IF segs = <<>> THEN acc
  ELSE IF Head(segs) = "." THEN Normalise(Tail(segs), acc)
  ELSE IF Head(segs) = ".."
    THEN Normalise(Tail(segs), IF acc = <<>> THEN acc ELSE SubSeq(acc, 1, Len(acc) - 1))
  ELSE Normalise(Tail(segs), Append(acc, Head(segs)))

\* path.resolve(p): the absolute, normalised path
pathResolve(p) ==
  Path(TRUE, Normalise((IF p.abs THEN <<>> ELSE Cwd) \o p.segs, <<>>), p.ext)

\* path.extname(p)
pathExtname(p) == p.ext

\* String.prototype.toLowerCase over the spellings the model uses
LowerTable ==
  [x \in {"JPEG", "Jpg", "JPE", "PNG", "Heic", "HEIF", "AVIF", "Tile", "DZ", "RAW", "TIFF",
          "Tif", "WebP", "GIF", "JP2", "JPX", "J2K", "J2C", "JXL", "BMP",
          ".JP2", ".J2K", ".Jpx", ".J2c", ".JPG", ".PNG", "IFD0", "IFD2"} |->
     CASE x = "IFD0" -> "ifd0" [] x = "IFD2" -> "ifd2" [] x = "JPEG" -> "jpeg" [] x = "Jpg" -> "jpg" [] x = "JPE" -> "jpe"
       [] x = "PNG" -> "png" [] x = "Heic" -> "heic" [] x = "HEIF" -> "heif"
       [] x = "AVIF" -> "avif" [] x = "Tile" -> "tile" [] x = "DZ" -> "dz"
       [] x = "RAW" -> "raw" [] x = "TIFF" -> "tiff" [] x = "Tif" -> "tif"
       [] x = "WebP" -> "webp" [] x = "GIF" -> "gif" [] x = "JP2" -> "jp2"
       [] x = "JPX" -> "jpx" [] x = "J2K" -> "j2k" [] x = "J2C" -> "j2c"
       [] x = "JXL" -> "jxl" [] x = "BMP" -> "bmp"
       [] x = ".JP2" -> ".jp2" [] x = ".J2K" -> ".j2k" [] x = ".Jpx" -> ".jpx"
       [] x = ".J2c" -> ".j2c" [] x = ".JPG" -> ".jpg" [] x = ".PNG" -> ".png"]

toLowerCase(s) == IF s \in DOMAIN LowerTable THEN LowerTable[s] ELSE s

\* jp2Regex = /\.(jp[2x]|j2[kc])$/i, tested on an extension
jp2Regex(ext) == toLowerCase(ext) \in {".jp2", ".jpx", ".j2k", ".j2c"}

-----------------------------------------------------------------------------
(* Byte buffers and chunk lists *)

RECURSIVE BufferConcat(_)
\* Buffer.concat(list): the bytes of the chunks, in list order
BufferConcat(list) ==
  IF list = <<>> THEN <<>> ELSE Head(list).v \o BufferConcat(Tail(list))

-----------------------------------------------------------------------------
(* The Job Options a new instance starts with, less options.input.  The    *)
(* values are the defaults the documentation of each resolver states.      *)

DefaultOptions ==
  [ fileOut |-> Str(EmptyString), formatOut |-> "input", streamOut |-> FALSE,
    resolveWithObject |-> FALSE,
    keepMetadata |-> 0, withMetadataOrientation |-> -1, withMetadataDensity |-> <<0, 1>>,
    withIccProfile |-> "", withExif |-> <<>>, withExifMerge |-> TRUE, withXmp |-> "",
    loop |-> -1, delay |-> <<>>,
    jpegQuality |-> 80, jpegProgressive |-> FALSE, jpegChromaSubsampling |-> "4:2:0",
    jpegTrellisQuantisation |-> FALSE, jpegQuantisationTable |-> 0,
    jpegOvershootDeringing |-> FALSE, jpegOptimiseScans |-> FALSE,
    jpegOptimiseCoding |-> TRUE,
    pngProgressive |-> FALSE, pngCompressionLevel |-> 6, pngAdaptiveFiltering |-> FALSE,
    pngPalette |-> FALSE, pngQuality |-> 100, pngEffort |-> 7, pngBitdepth |-> 8,
    pngDither |-> <<1, 1>>,
    jp2Quality |-> 80, jp2TileHeight |-> 512, jp2TileWidth |-> 512, jp2Lossless |-> FALSE,
    jp2ChromaSubsampling |-> "4:4:4",
    webpQuality |-> 80, webpAlphaQuality |-> 100, webpLossless |-> FALSE,
    webpNearLossless |-> FALSE, webpSmartSubsample |-> FALSE, webpSmartDeblock |-> FALSE,
    webpPreset |-> "default", webpEffort |-> 4, webpMinSize |-> FALSE, webpMixed |-> FALSE,
    gifBitdepth |-> 8, gifEffort |-> <<7, 1>>, gifDither |-> <<1, 1>>,
    gifInterFrameMaxError |-> <<0, 1>>, gifInterPaletteMaxError |-> <<3, 1>>,
    gifKeepDuplicateFrames |-> FALSE, gifReuse |-> TRUE, gifProgressive |-> FALSE,
    tiffQuality |-> 80, tiffCompression |-> "jpeg", tiffPredictor |-> "horizontal",
    tiffPyramid |-> FALSE, tiffMiniswhite |-> FALSE, tiffBitdepth |-> 8, tiffTile |-> FALSE,
    tiffTileHeight |-> 256, tiffTileWidth |-> 256, tiffXres |-> <<1, 1>>,
    tiffYres |-> <<1, 1>>, tiffResolutionUnit |-> "inch",
    heifQuality |-> 50, heifLossless |-> FALSE, heifCompression |-> "av1", heifEffort |-> 4,
    heifChromaSubsampling |-> "4:4:4", heifBitdepth |-> 8,
    jxlDistance |-> <<1, 1>>, jxlDecodingTier |-> 0, jxlEffort |-> 7, jxlLossless |-> FALSE,
    rawDepth |-> "uchar",
    tileSize |-> 256, tileOverlap |-> 0, tileContainer |-> "fs", tileLayout |-> "dz",
    tileFormat |-> "last", tileDepth |-> "last", tileAngle |-> 0, tileSkipBlanks |-> -1,
    tileBackground |-> <<255, 255, 255, 255>>, tileCentre |-> FALSE,
    tileId |-> "https://example.com/iiif", tileBasename |-> "",
    timeoutSeconds |-> 0 ]

\* the Job Options of a new instance built on the input descriptor `input`
NewOptions(input) == [k \in DOMAIN DefaultOptions \cup {"input"} |->
                        IF k = "input" THEN input ELSE DefaultOptions[k]]


-----------------------------------------------------------------------------
(* Results of a validating call: the options as written so far and the     *)
(* name of the parameter the call threw for ("" while nothing was thrown). *)

Ok(o) == [o |-> o, err |-> ""]
Throw(r, name) == [r EXCEPT !.err = name]
Set(r, field, value) == [r EXCEPT !.o[field] = value]

\* _setBooleanOption(key, val), skipped once the call has thrown
setBooleanOption(r, key, val) ==
  IF r.err # "" THEN r
  ELSE IF isBool(val) THEN Set(r, key, val.v)
  ELSE Throw(r, key)

-----------------------------------------------------------------------------
(* lib/output.js: the option resolvers.  Each takes the Job Options o and   *)
(* the options argument a, validates the keys in the order of the source,  *)
(* writing each accepted value as it goes, and stops at the first throw.   *)

\* an integer option that is only written while the field holds its default
intOptionFirstWins(r, v, field, name, min, max) ==
  IF r.err # "" \/ ~isDefined(v) THEN r
  ELSE IF isInteger(v) /\ inRange(v, min, max) THEN
    IF r.o[field] # DefaultOptions[field] THEN r ELSE Set(r, field, v.n)
  ELSE Throw(r, name)

\* an integer option whose range leaves out the upper bound
intOptionBelowMax(r, v, field, name, min, max) ==
  IF r.err # "" \/ ~isDefined(v) THEN r
  ELSE IF isInteger(v) /\ inRange(v, min, max - 1) THEN Set(r, field, v.n)
  ELSE Throw(r, name)

\* an integer option with an inclusive range, written when defined
intOption(r, v, field, name, min, max) ==
  IF r.err # "" \/ ~isDefined(v) THEN r
  ELSE IF isInteger(v) /\ inRange(v, min, max) THEN Set(r, field, v.n)
  ELSE Throw(r, name)

\* a number option with an inclusive range, stored as <<n, d>>
numberOption(r, v, field, name, min, max) ==
  IF r.err # "" \/ ~isDefined(v) THEN r
  ELSE IF isNumber(v) /\ inRange(v, min, max) THEN Set(r, field, <<v.n, v.d>>)
  ELSE Throw(r, name)

\* a string option that must be one of a list
enumOption(r, v, field, name, list) ==
  IF r.err # "" \/ ~isDefined(v) THEN r
  ELSE IF isString(v) /\ inArray(v.v, list) THEN Set(r, field, v.v)
  ELSE Throw(r, name)

\* a boolean option handed to _setBooleanOption when defined
boolOption(r, v, key) ==
  IF isDefined(v) THEN setBooleanOption(r, key, v) ELSE r

\* a boolean option tested with is.bool by the resolver itself
boolNamedOption(r, v, field, name) ==
  IF r.err # "" \/ ~isDefined(v) THEN r
  ELSE IF isBool(v) THEN Set(r, field, v.v)
  ELSE Throw(r, name)

\* a string option
stringOption(r, v, field, name) ==
  IF r.err # "" \/ ~isDefined(v) THEN r
  ELSE IF isString(v) THEN Set(r, field, v.v)
  ELSE Throw(r, name)

\* _updateFormatOut without the test of options.force
updateFormatOutAlways(r, formatOut, a) ==
  IF r.err # "" THEN r ELSE Set(r, "formatOut", formatOut)

\* _updateFormatOut(formatOut, options), skipped once the call has thrown
updateFormatOut(r, formatOut, a) ==
  IF r.err # "" THEN r
  ELSE IF ~(isObject(a) /\ Get(a, "force") = Bool(FALSE)) THEN Set(r, "formatOut", formatOut)
  ELSE r

\* Math.ceil(Math.log2(n)) for n >= 1
CeilLog2(n) == CHOOSE k \in 0..31 : 2^k >= n /\ (k = 0 \/ 2^(k - 1) < n)

\* Math.clz32(x) for 0 < x < 2^32
clz32(x) == 31 - (CHOOSE k \in 0..31 : 2^k <= x /\ x < 2^(k + 1))

\* the colour count rounded up to a power of two
colourCountCeiling(colours) == 2^CeilLog2(colours)

\* bitdepthFromColourCount = (colours) => 1 << 31 - Math.clz32(Math.ceil(Math.log2(colours)))
bitdepthFromColourCount(colours) == 2^(31 - clz32(CeilLog2(colours)))

\* a || b
OrElse(x, y) == IF Truthy(x) THEN x ELSE y

\* the colours / colors option of png and gif
coloursOption(r, a, field) ==
  LET colours == OrElse(Get(a, "colours"), Get(a, "colors"))
  IN IF r.err # "" \/ ~isDefined(colours) THEN r
     ELSE IF isInteger(colours) /\ inRange(colours, 2, 256)
       THEN Set(r, field, bitdepthFromColourCount(colours.n))
     ELSE Throw(r, "colours")

\* trySetAnimationOptions(source, target)
trySetAnimationOptions(r, a) ==
  LET r1 == IF isObject(a) THEN intOption(r, Get(a, "loop"), "loop", "loop", 0, 65535) ELSE r
      delay == Get(a, "delay")
  IN IF r1.err # "" \/ ~(isObject(a) /\ isDefined(delay)) THEN r1
     ELSE IF isInteger(delay) /\ inRange(delay, 0, 65535) THEN Set(r1, "delay", <<delay.n>>)
     ELSE IF /\ isArray(delay)
             /\ \A k \in 1..Len(delay.v) : isInteger(delay.v[k])
             /\ \A k \in 1..Len(delay.v) : inRange(delay.v[k], 0, 65535)
       THEN Set(r1, "delay", [k \in 1..Len(delay.v) |-> delay.v[k].n])
     ELSE Throw(r1, "delay")

\* the mozjpeg option of jpeg
mozjpegOption(r, v) ==
  IF r.err # "" \/ ~isDefined(v) THEN r
  ELSE IF isBool(v) THEN
    IF v.v THEN [r EXCEPT !.o.jpegTrellisQuantisation = TRUE,
                          !.o.jpegOvershootDeringing = TRUE,
                          !.o.jpegOptimiseScans = TRUE,
                          !.o.jpegProgressive = TRUE,
                          !.o.jpegQuantisationTable = 3]
    ELSE r
  ELSE Throw(r, "mozjpeg")

\* the optimiseScans / optimizeScans option of jpeg
optimiseScansOption(r, v) ==
  LET r1 == boolOption(r, v, "jpegOptimiseScans")
  IN IF r1.err = "" /\ isDefined(v) /\ Truthy(v) THEN Set(r1, "jpegProgressive", TRUE) ELSE r1

\* jpeg(options)
jpeg(o, a) ==
  LET r1 == intOption(Ok(o), Get(a, "quality"), "jpegQuality", "quality", 1, 100)
      r2 == boolOption(r1, Get(a, "progressive"), "jpegProgressive")
      r3 == enumOption(r2, Get(a, "chromaSubsampling"), "jpegChromaSubsampling",
                       "chromaSubsampling", {"4:2:0", "4:4:4"})
      r4 == boolOption(r3, IF isBool(Get(a, "optimizeCoding")) THEN Get(a, "optimizeCoding")
                           ELSE Get(a, "optimiseCoding"), "jpegOptimiseCoding")
      r5 == mozjpegOption(r4, Get(a, "mozjpeg"))
      r6 == boolOption(r5, IF isBool(Get(a, "trellisQuantization"))
                             THEN Get(a, "trellisQuantization")
                           ELSE Get(a, "trellisQuantisation"), "jpegTrellisQuantisation")
      r7 == boolOption(r6, Get(a, "overshootDeringing"), "jpegOvershootDeringing")
      r8 == optimiseScansOption(r7, IF isBool(Get(a, "optimizeScans"))
                                      THEN Get(a, "optimizeScans")
                                    ELSE Get(a, "optimiseScans"))
      r9 == intOption(r8, IF isNumber(Get(a, "quantizationTable"))
                            THEN Get(a, "quantizationTable")
                          ELSE Get(a, "quantisationTable"),
                      "jpegQuantisationTable", "quantisationTable", 0, 8)
  IN updateFormatOut(IF isObject(a) THEN r9 ELSE Ok(o), "jpeg", a)

\* a palette step that only honours an explicit palette option
pngPaletteExplicitOnly(r, a) ==
  IF r.err # "" THEN r
  ELSE IF isDefined(Get(a, "palette")) THEN setBooleanOption(r, "pngPalette", Get(a, "palette"))
  ELSE r

\* the palette step of png: explicit, or implied by a palette-only option
pngPaletteOption(r, a) ==
  IF r.err # "" THEN r
  ELSE IF isDefined(Get(a, "palette")) THEN setBooleanOption(r, "pngPalette", Get(a, "palette"))
  ELSE IF \E k \in {"quality", "effort", "colours", "colors", "dither"} : isDefined(Get(a, k))
    THEN setBooleanOption(r, "pngPalette", Bool(TRUE))
  ELSE r

\* png(options)
png(o, a) ==
  LET r1 == boolOption(Ok(o), Get(a, "progressive"), "pngProgressive")
      r2 == intOption(r1, Get(a, "compressionLevel"), "pngCompressionLevel",
                      "compressionLevel", 0, 9)
      r3 == boolOption(r2, Get(a, "adaptiveFiltering"), "pngAdaptiveFiltering")
      r4 == coloursOption(r3, a, "pngBitdepth")
      r5 == pngPaletteOption(r4, a)
      r6 == intOption(r5, Get(a, "quality"), "pngQuality", "quality", 0, 100)
      r7 == intOption(r6, Get(a, "effort"), "pngEffort", "effort", 1, 10)
      r8 == numberOption(r7, Get(a, "dither"), "pngDither", "dither", 0, 1)
  IN updateFormatOut(IF ~isObject(a) THEN Ok(o)
                     ELSE IF r5.err = "" /\ r5.o.pngPalette THEN r8
                     ELSE r5, "png", a)

\* webp(options)
webp(o, a) ==
  LET r1 == intOption(Ok(o), Get(a, "quality"), "webpQuality", "quality", 1, 100)
      r2 == intOption(r1, Get(a, "alphaQuality"), "webpAlphaQuality", "alphaQuality", 0, 100)
      r3 == boolOption(r2, Get(a, "lossless"), "webpLossless")
      r4 == boolOption(r3, Get(a, "nearLossless"), "webpNearLossless")
      r5 == boolOption(r4, Get(a, "smartSubsample"), "webpSmartSubsample")
      r6 == boolOption(r5, Get(a, "smartDeblock"), "webpSmartDeblock")
      r7 == enumOption(r6, Get(a, "preset"), "webpPreset", "preset",
                       {"default", "photo", "picture", "drawing", "icon", "text"})
      r8 == intOption(r7, Get(a, "effort"), "webpEffort", "effort", 0, 6)
      r9 == boolOption(r8, Get(a, "minSize"), "webpMinSize")
      r10 == boolOption(r9, Get(a, "mixed"), "webpMixed")
  IN updateFormatOut(trySetAnimationOptions(IF isObject(a) THEN r10 ELSE Ok(o), a), "webp", a)

\* the keepDuplicateFrames option of gif
keepDuplicateFramesOption(r, v) ==
  IF r.err # "" \/ ~isDefined(v) THEN r
  ELSE IF isBool(v) THEN setBooleanOption(r, "gifKeepDuplicateFrames", v)
  ELSE Throw(r, "keepDuplicateFrames")

\* gif(options)
gif(o, a) ==
  LET r1 == boolOption(Ok(o), Get(a, "reuse"), "gifReuse")
      r2 == boolOption(r1, Get(a, "progressive"), "gifProgressive")
      r3 == coloursOption(r2, a, "gifBitdepth")
      r4 == numberOption(r3, Get(a, "effort"), "gifEffort", "effort", 1, 10)
      r5 == numberOption(r4, Get(a, "dither"), "gifDither", "dither", 0, 1)
      r6 == numberOption(r5, Get(a, "interFrameMaxError"), "gifInterFrameMaxError",
                         "interFrameMaxError", 0, 32)
      r7 == numberOption(r6, Get(a, "interPaletteMaxError"), "gifInterPaletteMaxError",
                         "interPaletteMaxError", 0, 256)
      r8 == keepDuplicateFramesOption(r7, Get(a, "keepDuplicateFrames"))
  IN updateFormatOut(trySetAnimationOptions(IF isObject(a) THEN r8 ELSE Ok(o), a), "gif", a)

\* jp2(options): needs a build whose JPEG 2000 support can write to a buffer
jp2(o, a, bld) ==
  LET r1 == intOption(Ok(o), Get(a, "quality"), "jp2Quality", "quality", 1, 100)
      r2 == boolNamedOption(r1, Get(a, "lossless"), "jp2Lossless", "lossless")
      r3 == intOption(r2, Get(a, "tileWidth"), "jp2TileWidth", "tileWidth", 1, 32768)
      r4 == intOption(r3, Get(a, "tileHeight"), "jp2TileHeight", "tileHeight", 1, 32768)
      r5 == enumOption(r4, Get(a, "chromaSubsampling"), "jp2ChromaSubsampling",
                       "chromaSubsampling", {"4:2:0", "4:4:4"})
  IN IF ~bld.jp2kBuffer THEN Throw(Ok(o), "errJp2Save")
     ELSE updateFormatOut(IF isObject(a) THEN r5 ELSE Ok(o), "jp2", a)

\* an integer option that must be one of a list
intEnumOption(r, v, field, name, list) ==
  IF r.err # "" \/ ~isDefined(v) THEN r
  ELSE IF isInteger(v) /\ inArray(v.n, list) THEN Set(r, field, v.n)
  ELSE Throw(r, name)

\* an integer option that must be greater than zero
positiveIntOption(r, v, field, name) ==
  IF r.err # "" \/ ~isDefined(v) THEN r
  ELSE IF isInteger(v) /\ v.n > 0 THEN Set(r, field, v.n)
  ELSE Throw(r, name)

\* a number option that must be greater than zero
positiveNumberOption(r, v, field, name) ==
  IF r.err # "" \/ ~isDefined(v) THEN r
  ELSE IF isNumber(v) /\ v.n > 0 THEN Set(r, field, <<v.n, v.d>>)
  ELSE Throw(r, name)

\* tiff(options)
tiff(o, a) ==
  LET r1 == intOption(Ok(o), Get(a, "quality"), "tiffQuality", "quality", 1, 100)
      r2 == intEnumOption(r1, Get(a, "bitdepth"), "tiffBitdepth", "bitdepth", {1, 2, 4, 8})
      r3 == boolOption(r2, Get(a, "tile"), "tiffTile")
      r4 == positiveIntOption(r3, Get(a, "tileWidth"), "tiffTileWidth", "tileWidth")
      r5 == positiveIntOption(r4, Get(a, "tileHeight"), "tiffTileHeight", "tileHeight")
      r6 == boolOption(r5, Get(a, "miniswhite"), "tiffMiniswhite")
      r7 == boolOption(r6, Get(a, "pyramid"), "tiffPyramid")
      r8 == positiveNumberOption(r7, Get(a, "xres"), "tiffXres", "xres")
      r9 == positiveNumberOption(r8, Get(a, "yres"), "tiffYres", "yres")
      r10 == enumOption(r9, Get(a, "compression"), "tiffCompression", "compression",
                        {"none", "jpeg", "deflate", "packbits", "ccittfax4", "lzw", "webp",
                         "zstd", "jp2k"})
      r11 == enumOption(r10, Get(a, "predictor"), "tiffPredictor", "predictor",
                        {"none", "horizontal", "float"})
      r12 == enumOption(r11, Get(a, "resolutionUnit"), "tiffResolutionUnit",
                        "resolutionUnit", {"inch", "cm"})
  IN updateFormatOut(IF isObject(a) THEN r12 ELSE Ok(o), "tiff", a)

\* the compression option of heif, which has no default
heifCompressionOption(r, v) ==
  IF isString(v) /\ inArray(v.v, {"av1", "hevc"}) THEN Set(r, "heifCompression", v.v)
  ELSE Throw(r, "compression")

\* the bitdepth option of heif: prebuilt binaries only write 8 bits
\* a bitdepth option that takes 8, 10 and 12 on every build
heifBitdepthOnAnyBuild(r, v, bld) ==
  IF r.err # "" \/ ~isDefined(v) THEN r
  ELSE IF isInteger(v) /\ inArray(v.n, {8, 10, 12}) THEN Set(r, "heifBitdepth", v.n)
  ELSE Throw(r, "bitdepth")

heifBitdepthOption(r, v, bld) ==
  IF r.err # "" \/ ~isDefined(v) THEN r
  ELSE IF isInteger(v) /\ inArray(v.n, {8, 10, 12}) THEN
    IF v.n # 8 /\ bld.heif THEN Throw(r, "bitdepth when using prebuilt binaries")
    ELSE Set(r, "heifBitdepth", v.n)
  ELSE Throw(r, "bitdepth")

\* heif(options)
heif(o, a, bld) ==
  LET r1 == heifCompressionOption(Ok(o), Get(a, "compression"))
      r2 == intOption(r1, Get(a, "quality"), "heifQuality", "quality", 1, 100)
      r3 == boolNamedOption(r2, Get(a, "lossless"), "heifLossless", "lossless")
      r4 == intOption(r3, Get(a, "effort"), "heifEffort", "effort", 0, 9)
      r5 == enumOption(r4, Get(a, "chromaSubsampling"), "heifChromaSubsampling",
                       "chromaSubsampling", {"4:2:0", "4:4:4"})
      r6 == heifBitdepthOption(r5, Get(a, "bitdepth"), bld)
  IN updateFormatOut(IF isObject(a) THEN r6 ELSE Throw(Ok(o), "options"), "heif", a)

\* { ...options, compression: 'av1' } for options undefined or an object
SpreadWithAv1(a) ==
  LET src == IF a.t = "object" THEN a.v ELSE <<>>
  IN Obj([k \in DOMAIN src \cup {"compression"} |->
            IF k = "compression" THEN Str("av1") ELSE src[k]])

\* avif(options)
avif(o, a, bld) == heif(o, SpreadWithAv1(a), bld)

\* the quality option of jxl, stored as a distance (a rational <<n, d>>)
jxlQualityDistance(q) ==
  IF q >= 30 THEN <<10 + (100 - q) * 9, 100>>
  ELSE <<53 * q * q - 3450 * q + 75000, 3000>>

\* the quality / distance step of jxl
jxlDistanceOption(r, a) ==
  LET quality == Get(a, "quality")
  IN IF isDefined(quality) THEN
       IF isInteger(quality) /\ inRange(quality, 1, 100)
         THEN Set(r, "jxlDistance", jxlQualityDistance(quality.n))
       ELSE Throw(r, "quality")
     ELSE numberOption(r, Get(a, "distance"), "jxlDistance", "distance", 0, 15)

\* jxl(options)
jxl(o, a) ==
  LET r1 == jxlDistanceOption(Ok(o), a)
      r2 == intOption(r1, Get(a, "decodingTier"), "jxlDecodingTier", "decodingTier", 0, 4)
      r3 == boolNamedOption(r2, Get(a, "lossless"), "jxlLossless", "lossless")
      r4 == intOption(r3, Get(a, "effort"), "jxlEffort", "effort", 1, 9)
  IN updateFormatOut(trySetAnimationOptions(IF isObject(a) THEN r4 ELSE Ok(o), a), "jxl", a)

\* raw(options): _updateFormatOut is called without the options
raw(o, a) ==
  LET r1 == enumOption(Ok(o), Get(a, "depth"), "rawDepth", "depth",
                       {"char", "uchar", "short", "ushort", "int", "uint", "float",
                        "complex", "double", "dpcomplex"})
  IN updateFormatOut(IF isObject(a) THEN r1 ELSE Ok(o), "raw", Undefined)

\* the overlap option of tile, compared with the tile size stored so far
tileOverlapOption(r, v) ==
  IF r.err # "" \/ ~isDefined(v) THEN r
  ELSE IF isInteger(v) /\ inRange(v, 0, 8192) THEN
    IF v.n > r.o.tileSize THEN Throw(r, "overlap") ELSE Set(r, "tileOverlap", v.n)
  ELSE Throw(r, "overlap")

\* the angle option of tile
tileAngleOption(r, v) ==
  IF r.err # "" \/ ~isDefined(v) THEN r
  ELSE IF isInteger(v) /\ v.n % 90 = 0 THEN Set(r, "tileAngle", v.n)
  ELSE Throw(r, "angle")

\* _setBackgroundColourOption(key, value): a colour is an array of channels
setBackgroundColourOption(r, key, value) ==
  IF r.err # "" \/ ~isDefined(value) THEN r
  ELSE IF isArray(value) /\ Len(value.v) = 4 /\ \A k \in 1..4 : isInteger(value.v[k])
    THEN Set(r, key, [k \in 1..4 |-> value.v[k].n])
  ELSE Throw(r, "background")

\* the skipBlanks option of tile, defaulted by the google layout
tileSkipBlanksOption(r, a) ==
  IF r.err # "" THEN r
  ELSE IF isDefined(Get(a, "skipBlanks"))
    THEN intOption(r, Get(a, "skipBlanks"), "tileSkipBlanks", "skipBlanks", -1, 65535)
  ELSE IF isDefined(Get(a, "layout")) /\ Get(a, "layout") = Str("google")
    THEN Set(r, "tileSkipBlanks", 5)
  ELSE r

\* the format step of tile: the tiles take the format selected so far
\* a format step that accepts every selected format and copies none
tileFormatStepSkipped(r) == r

tileFormatStep(r) ==
  IF r.err # "" THEN r
  ELSE IF inArray(r.o.formatOut, {"jpeg", "png", "webp"}) THEN Set(r, "tileFormat", r.o.formatOut)
  ELSE IF r.o.formatOut # "input" THEN Throw(r, "format")
  ELSE r

\* tile(options): _updateFormatOut is called without the options
tile(o, a) ==
  LET r1 == intOption(Ok(o), Get(a, "size"), "tileSize", "size", 1, 8192)
      r2 == tileOverlapOption(r1, Get(a, "overlap"))
      r3 == enumOption(r2, Get(a, "container"), "tileContainer", "container", {"fs", "zip"})
      r4 == enumOption(r3, Get(a, "layout"), "tileLayout", "layout",
                       {"dz", "google", "iiif", "iiif3", "zoomify"})
      r5 == tileAngleOption(r4, Get(a, "angle"))
      r6 == setBackgroundColourOption(r5, "tileBackground", Get(a, "background"))
      r7 == enumOption(r6, Get(a, "depth"), "tileDepth", "depth",
                       {"onepixel", "onetile", "one"})
      r8 == tileSkipBlanksOption(r7, a)
      r9 == boolOption(r8, IF isBool(Get(a, "center")) THEN Get(a, "center")
                           ELSE Get(a, "centre"), "tileCentre")
      r10 == stringOption(r9, Get(a, "id"), "tileId", "id")
      r11 == stringOption(r10, Get(a, "basename"), "tileBasename", "basename")
  IN updateFormatOut(tileFormatStep(IF isObject(a) THEN r11 ELSE Ok(o)), "dz", Undefined)

\* timeout(options)
timeout(o, a) ==
  IF ~isPlainObject(a) THEN Throw(Ok(o), "options")
  ELSE IF isInteger(Get(a, "seconds")) /\ inRange(Get(a, "seconds"), 0, 3600)
    THEN Set(Ok(o), "timeoutSeconds", Get(a, "seconds").n)
  ELSE Throw(Ok(o), "seconds")

-----------------------------------------------------------------------------
(* Metadata retention: keepExif, withExif, withExifMerge, keepIccProfile,   *)
(* withIccProfile, keepXmp, withXmp, keepMetadata                           *)

\* bit i of a retention mask
Bit(x, i) == (x \div 2^i) % 2

\* x | y and x & ~y on the five bits of the retention mask
BitOr(x, y) ==
  LET b(i) == IF Bit(x, i) = 1 \/ Bit(y, i) = 1 THEN 2^i ELSE 0
  IN b(0) + b(1) + b(2) + b(3) + b(4)

BitAndNot(x, y) ==
  LET b(i) == IF Bit(x, i) = 1 /\ Bit(y, i) = 0 THEN 2^i ELSE 0
  IN b(0) + b(1) + b(2) + b(3) + b(4)

\* an object whose entries are kept in insertion order, as Object.entries gives them
Entry(k, v) == [k |-> k, v |-> v]
Entries(s) == [t |-> "object", e |-> s]

\* w[key] = v on an object used as a map
Put(w, key, v) == [x \in DOMAIN w \cup {key} |-> IF x = key THEN v ELSE w[x]]

\* keepExif()
keepExif(o) == Set(Ok(o), "keepMetadata", BitOr(o.keepMetadata, 1))

\* the entries of one IFD group, written one by one until a value is not a string
RECURSIVE withExifEntries(_, _, _, _)
withExifEntries(r, ifd, es, i) ==
  IF i > Len(es) THEN r
  ELSE IF isString(es[i].v)
    THEN withExifEntries(
           Set(r, "withExif",
               Put(r.o.withExif, "exif-" \o toLowerCase(ifd) \o "-" \o es[i].k, es[i].v.v)),
           ifd, es, i + 1)
  ELSE Throw(r, ifd \o "." \o es[i].k)

\* the IFD groups in order, until a group is not an object or one of its values throws
RECURSIVE withExifGroups(_, _, _)
withExifGroups(r, groups, i) ==
  IF i > Len(groups) THEN r
  ELSE IF isObject(groups[i].v)
    THEN LET r1 == withExifEntries(r, groups[i].k, groups[i].v.e, 1)
         IN IF r1.err # "" THEN r1 ELSE withExifGroups(r1, groups, i + 1)
  ELSE Throw(r, groups[i].k)

\* withExif(exif)
withExif(o, exif) ==
  IF isObject(exif)
    THEN LET r == withExifGroups(Ok(o), exif.e, 1)
         IN IF r.err # "" THEN r
            ELSE keepExif(Set(r, "withExifMerge", FALSE).o)
  ELSE Throw(Ok(o), "exif")

\* a withExifMerge that leaves the merge flag as withExif set it
withExifMergeOff(o, exif) == withExif(o, exif)

\* withExifMerge(exif)
withExifMerge(o, exif) ==
  LET r == withExif(o, exif)
  IN IF r.err # "" THEN r ELSE Set(r, "withExifMerge", TRUE)

\* keepIccProfile()
keepIccProfile(o) == Set(Ok(o), "keepMetadata", BitOr(o.keepMetadata, 8))

\* a withIccProfile that validates attach and then ignores it
withIccProfileAttached(o, icc, opts) ==
  IF ~isString(icc) THEN Throw(Ok(o), "icc")
  ELSE LET r == keepIccProfile(Set(Ok(o), "withIccProfile", icc.v).o)
       IN IF isObject(opts) /\ isDefined(Get(opts, "attach")) /\ ~isBool(Get(opts, "attach"))
            THEN Throw(r, "attach")
          ELSE r

\* withIccProfile(icc, options)
withIccProfile(o, icc, opts) ==
  IF ~isString(icc) THEN Throw(Ok(o), "icc")
  ELSE LET r == keepIccProfile(Set(Ok(o), "withIccProfile", icc.v).o)
           attach == Get(opts, "attach")
       IN IF isObject(opts) /\ isDefined(attach)
            THEN IF isBool(attach)
                   THEN IF ~attach.v
                          THEN Set(r, "keepMetadata", BitAndNot(r.o.keepMetadata, 8))
                        ELSE r
                 ELSE Throw(r, "attach")
          ELSE r

\* a keepXmp that sets the bit next to the XMP bit
keepXmpNextBit(o) == Set(Ok(o), "keepMetadata", BitOr(o.keepMetadata, 4))

\* keepXmp()
keepXmp(o) == Set(Ok(o), "keepMetadata", BitOr(o.keepMetadata, 2))

\* withXmp(xmp)
withXmp(o, xmp) ==
  IF isString(xmp) /\ xmp.v # ""
    THEN LET r == Set(Ok(o), "withXmp", xmp.v)
         IN Set(r, "keepMetadata", BitOr(r.o.keepMetadata, 2))
  ELSE Throw(Ok(o), "xmp")

\* keepMetadata()
keepMetadata(o) == Set(Ok(o), "keepMetadata", 31)

\* a withMetadata that validates its options before it writes anything
withMetadataValidatedFirst(o, a) ==
  LET orientation == Get(a, "orientation")
      density == Get(a, "density")
      kept == withIccProfile(keepMetadata(o).o, Str("srgb"), Undefined)
  IN IF isPlainObject(a) /\ isDefined(orientation)
        /\ ~(isInteger(orientation) /\ inRange(orientation, 1, 8))
       THEN Throw(Ok(o), "orientation")
     ELSE IF isPlainObject(a) /\ isDefined(density) /\ ~(isNumber(density) /\ density.n > 0)
       THEN Throw(Ok(o), "density")
     ELSE LET r1 == intOption(kept, orientation, "withMetadataOrientation", "orientation", 1, 8)
          IN positiveNumberOption(r1, density, "withMetadataDensity", "density")

\* withMetadata(options): keepMetadata() and withIccProfile('srgb') first, then
\* orientation, density, icc and exif in this order
withMetadata(o, a) ==
  LET kept == withIccProfile(keepMetadata(o).o, Str("srgb"), Undefined)
      r1 == intOption(kept, Get(a, "orientation"), "withMetadataOrientation",
                      "orientation", 1, 8)
      r2 == positiveNumberOption(r1, Get(a, "density"), "withMetadataDensity", "density")
      r3 == IF r2.err = "" /\ isDefined(Get(a, "icc"))
              THEN withIccProfile(r2.o, Get(a, "icc"), Undefined)
            ELSE r2
      r4 == IF r3.err = "" /\ isDefined(Get(a, "exif"))
              THEN withExifMerge(r3.o, Get(a, "exif"))
            ELSE r3
  IN IF isObject(a) THEN r4 ELSE kept

\* a formats map without the aliases
formatsCanonicalOnly ==
  [heif |-> "heif", avif |-> "avif", jpeg |-> "jpeg", tile |-> "tile", png |-> "png",
   raw |-> "raw", tiff |-> "tiff", webp |-> "webp", gif |-> "gif", jp2 |-> "jp2",
   jxl |-> "jxl"]

\* const formats = new Map([...]): format name or alias to resolver
formats ==
  [heic |-> "heif", heif |-> "heif", avif |-> "avif", jpeg |-> "jpeg", jpg |-> "jpeg",
   jpe |-> "jpeg", tile |-> "tile", dz |-> "tile", png |-> "png", raw |-> "raw",
   tiff |-> "tiff", tif |-> "tiff", webp |-> "webp", gif |-> "gif", jp2 |-> "jp2",
   jpx |-> "jp2", j2k |-> "jp2", j2c |-> "jp2", jxl |-> "jxl"]

\* this[actualFormat](options)
CallResolver(actualFormat, o, a, bld) ==
  CASE actualFormat = "jpeg" -> jpeg(o, a)
    [] actualFormat = "png" -> png(o, a)
    [] actualFormat = "webp" -> webp(o, a)
    [] actualFormat = "gif" -> gif(o, a)
    [] actualFormat = "jp2" -> jp2(o, a, bld)
    [] actualFormat = "tiff" -> tiff(o, a)
    [] actualFormat = "avif" -> avif(o, a, bld)
    [] actualFormat = "heif" -> heif(o, a, bld)
    [] actualFormat = "jxl" -> jxl(o, a)
    [] actualFormat = "raw" -> raw(o, a)
    [] actualFormat = "tile" -> tile(o, a)

\* toFormat(format, options)
toFormat(o, format, a, bld) ==
  LET name == IF isObject(format) /\ isString(Get(format, "id")) THEN Get(format, "id")
              ELSE format
  IN IF ~isString(name) THEN Throw(Ok(o), "TypeError")
     ELSE IF toLowerCase(name.v) \notin DOMAIN formats THEN Throw(Ok(o), "format")
     ELSE CallResolver(formats[toLowerCase(name.v)], o, a, bld)

-----------------------------------------------------------------------------
(* lib/input.js: the input descriptor and the stream-input half *)

\* _createInputDescriptor for a path string, a Buffer, or no input at all
\* (a stream); the decode controls of the descriptor are not modelled
createInputDescriptor(input) ==
  IF isString(input) THEN [file |-> input, buffer |-> Undefined]
  ELSE IF isBuffer(input) THEN [file |-> Undefined, buffer |-> input]
  ELSE [file |-> Undefined, buffer |-> Arr(<<>>)]

\* _isStreamInput
isStreamInput(o) == isArray(o.input.buffer)

\* _flattenBufferIn
flattenBufferIn(o) ==
  IF isStreamInput(o)
    THEN [o EXCEPT !.input.buffer = Buf(BufferConcat(o.input.buffer.v))]
    ELSE o

-----------------------------------------------------------------------------
(* The instance as the handlers see it: m.o = this.options, m.eng the      *)
(* engine calls made, m.ls the 'finish' listeners, m.sif =                 *)
(* this.streamInFinished, m.fl the number of concatenations made; m.ret,   *)
(* m.mode and m.guard describe the call being made.                        *)

Machine ==
  [o |-> options, eng |-> engine, ls |-> finishListeners, sif |-> streamInFinished,
   fl |-> hist.flattens, ret |-> "", mode |-> "", guard |-> ""]

Listener(kind, op, job, once) == [kind |-> kind, op |-> op, job |-> job, once |-> once]

\* this.on('finish', ...) or this.once('finish', ...)
AddListener(m, op, j, once) ==
  [m EXCEPT !.ls = Append(@, Listener("job", op, j, once))]

\* sharp.pipeline / sharp.metadata / sharp.stats (this.options, callback): the
\* engine reads the options handed to it when it is called
Invoke(m, op, j, fin) ==
  [m EXCEPT !.eng = Append(@, [op |-> op, job |-> j, input |-> m.o.input,
                               fileOut |-> m.o.fileOut,
                               resolveWithObject |-> m.o.resolveWithObject,
                               afterFinish |-> fin,
                               done |-> FALSE, err |-> FALSE])]

\* the body every deferred listener starts with: this._flattenBufferIn()
Flatten(m) ==
  [m EXCEPT !.o = flattenBufferIn(@),
            !.fl = IF isStreamInput(m.o) THEN @ + 1 ELSE @]

\* one 'finish' listener: the flag listener of _write, or a deferred job
FireListener(m, l, fin) ==
  IF l.kind = "flag" THEN [m EXCEPT !.sif = TRUE]
  ELSE Invoke(Flatten(m), l.op, l.job, fin)

RECURSIVE RunListeners(_, _, _, _)
RunListeners(ls, i, m, fin) ==
  IF i > Len(ls) THEN m
  ELSE RunListeners(ls, i + 1, FireListener(m, ls[i], fin), fin)

\* emit('finish'): the listeners registered at that moment run in
\* registration order, and the once-listeners among them are removed
emitFinish(m, fin) ==
  [RunListeners(m.ls, 1, m, fin) EXCEPT !.ls = SelectSeq(m.ls, LAMBDA l : ~l.once)]

-----------------------------------------------------------------------------
(* lib/output.js: the execution dispatcher *)

\* _pipeline with a promise-mode branch that does not wait for 'finish'
pipelineEager(m, callback, j, fin) ==
  IF isFn(callback) THEN
    [(IF isStreamInput(m.o) THEN AddListener(m, "pipeline", j, FALSE)
      ELSE Invoke(m, "pipeline", j, fin))
       EXCEPT !.ret = "this", !.mode = "callback"]
  ELSE IF m.o.streamOut THEN
    [(IF isStreamInput(m.o)
        THEN LET m1 == AddListener(m, "pipeline", j, TRUE)
             IN IF m1.sif THEN emitFinish(m1, fin) ELSE m1
        ELSE Invoke(m, "pipeline", j, fin))
       EXCEPT !.ret = "this", !.mode = "stream"]
  ELSE
    [Invoke(Flatten(m), "pipeline", j, fin) EXCEPT !.ret = "promise", !.mode = "promise"]

\* _pipeline(callback, stack) for job j
pipeline(m, callback, j, fin) ==
  IF isFn(callback) THEN
    [(IF isStreamInput(m.o) THEN AddListener(m, "pipeline", j, FALSE)
      ELSE Invoke(m, "pipeline", j, fin))
       EXCEPT !.ret = "this", !.mode = "callback"]
  ELSE IF m.o.streamOut THEN
    [(IF isStreamInput(m.o)
        THEN LET m1 == AddListener(m, "pipeline", j, TRUE)
             IN IF m1.sif THEN emitFinish(m1, fin) ELSE m1
        ELSE Invoke(m, "pipeline", j, fin))
       EXCEPT !.ret = "this", !.mode = "stream"]
  ELSE
    [(IF isStreamInput(m.o) THEN AddListener(m, "pipeline", j, TRUE)
      ELSE Invoke(m, "pipeline", j, fin))
       EXCEPT !.ret = "promise", !.mode = "promise"]

\* the guard of toFile comparing the paths as given, unresolved
toFileGuardUnresolved(o, fileOut, bld) ==
  IF ~isString(fileOut) THEN "Missing output file path"
  ELSE IF isString(o.input.file) /\ o.input.file.v = fileOut.v
    THEN "Cannot use same file for input and output"
  ELSE IF jp2Regex(pathExtname(fileOut.v)) /\ ~bld.jp2kFile
    THEN "JP2 output requires libvips with support for OpenJPEG"
  ELSE ""

\* the guard of toFile: the error it raises, "" when there is none
toFileGuard(o, fileOut, bld) ==
  IF ~isString(fileOut) THEN "Missing output file path"
  ELSE IF isString(o.input.file) /\ pathResolve(o.input.file.v) = pathResolve(fileOut.v)
    THEN "Cannot use same file for input and output"
  ELSE IF jp2Regex(pathExtname(fileOut.v)) /\ ~bld.jp2kFile
    THEN "JP2 output requires libvips with support for OpenJPEG"
  ELSE ""

\* a toFile that also selects the output format the file extension names
toFileFormatFromExtension(m, fileOut, callback, j, fin, bld) ==
  LET err == toFileGuard(m.o, fileOut, bld)
      ext == toLowerCase(pathExtname(fileOut.v))
  IN IF err # "" THEN
       IF isFn(callback)
         THEN [m EXCEPT !.ret = "this", !.mode = "callback", !.guard = err]
         ELSE [m EXCEPT !.ret = "rejected", !.mode = "promise", !.guard = err]
     ELSE pipeline([m EXCEPT !.o.fileOut = fileOut,
                             !.o.formatOut = CASE ext = ".jpg" -> "jpeg"
                                               [] ext = ".png" -> "png"
                                               [] OTHER -> @],
                   callback, j, fin)

\* toFile(fileOut, callback)
toFile(m, fileOut, callback, j, fin, bld) ==
  LET err == toFileGuard(m.o, fileOut, bld)
  IN IF err # "" THEN
       IF isFn(callback)
         THEN [m EXCEPT !.ret = "this", !.mode = "callback", !.guard = err]
         ELSE [m EXCEPT !.ret = "rejected", !.mode = "promise", !.guard = err]
     ELSE pipeline([m EXCEPT !.o.fileOut = fileOut], callback, j, fin)

\* toBuffer(options, callback)
toBuffer(m, a, callback, j, fin) ==
  LET r == IF isObject(a)
             THEN setBooleanOption(Ok(m.o), "resolveWithObject", Get(a, "resolveWithObject"))
           ELSE IF m.o.resolveWithObject
             THEN Ok([m.o EXCEPT !.resolveWithObject = FALSE])
           ELSE Ok(m.o)
  IN IF r.err # "" THEN [m EXCEPT !.ret = "throw", !.guard = r.err]
     ELSE pipeline([m EXCEPT !.o = [r.o EXCEPT !.fileOut = Str(EmptyString)]],
                   IF isFn(a) THEN a ELSE callback, j, fin)

\* _read without the streamOut test: every pull starts a job
readEveryPull(m, j, fin) ==
  pipeline([m EXCEPT !.o.streamOut = TRUE], Undefined, j, fin)

\* _read()
read(m, j, fin) ==
  IF ~m.o.streamOut
    THEN pipeline([m EXCEPT !.o.streamOut = TRUE], Undefined, j, fin)
    ELSE m

\* metadata that always waits for a 'finish' still to come
metadataAwaitFinish(m, callback, j, fin) ==
  IF isFn(callback) THEN
    [(IF isStreamInput(m.o) THEN AddListener(m, "metadata", j, FALSE)
      ELSE Invoke(m, "metadata", j, fin))
       EXCEPT !.ret = "this", !.mode = "callback"]
  ELSE
    [(IF isStreamInput(m.o) THEN AddListener(m, "metadata", j, TRUE)
      ELSE Invoke(m, "metadata", j, fin))
       EXCEPT !.ret = "promise", !.mode = "promise"]

\* metadata(callback)
metadata(m, callback, j, fin) ==
  IF isFn(callback) THEN
    [(IF isStreamInput(m.o) THEN AddListener(m, "metadata", j, FALSE)
      ELSE Invoke(m, "metadata", j, fin))
       EXCEPT !.ret = "this", !.mode = "callback"]
  ELSE
    [(IF isStreamInput(m.o)
        THEN IF fin THEN Invoke(Flatten(m), "metadata", j, fin)
             ELSE AddListener(m, "metadata", j, TRUE)
        ELSE Invoke(m, "metadata", j, fin))
       EXCEPT !.ret = "promise", !.mode = "promise"]

\* stats(callback)
stats(m, callback, j, fin) ==
  IF isFn(callback) THEN
    [(IF isStreamInput(m.o) THEN AddListener(m, "stats", j, FALSE)
      ELSE Invoke(m, "stats", j, fin))
       EXCEPT !.ret = "this", !.mode = "callback"]
  ELSE
    [(IF isStreamInput(m.o) THEN AddListener(m, "stats", j, FALSE)
      ELSE Invoke(m, "stats", j, fin))
       EXCEPT !.ret = "promise", !.mode = "promise"]

\* _write(chunk, encoding, callback): m.guard is the error given to callback
\* a _write that reports no error once the payload is no longer a list
writeUnguarded(m, chunk) ==
  IF isArray(m.o.input.buffer) /\ isBuffer(chunk)
    THEN [m EXCEPT !.o.input.buffer.v = Append(@, chunk), !.ret = "callback"]
  ELSE [m EXCEPT !.ret = "callback"]

write(m, chunk) ==
  IF isArray(m.o.input.buffer) THEN
    IF isBuffer(chunk) THEN
      [(IF Len(m.o.input.buffer.v) = 0
          THEN [m EXCEPT !.ls = Append(@, Listener("flag", "", 0, FALSE))]
          ELSE m)
         EXCEPT !.o.input.buffer.v = Append(@, chunk), !.ret = "callback"]
    ELSE [m EXCEPT !.ret = "callback", !.guard = "Non-Buffer data on Writable Stream"]
  ELSE [m EXCEPT !.ret = "callback", !.guard = "Unexpected data on Writable Stream"]


-----------------------------------------------------------------------------
(* The completion callbacks _pipeline hands to the engine *)

Event(e, i) == [e |-> e, inv |-> i]

\* this.push(data): data pushed after end-of-stream is not queued
push(rd, i) == IF rd.eof THEN rd ELSE [rd EXCEPT !.queue = Append(@, i)]

\* stream mode emitting 'close' from the completion callback itself
streamCompleteCloses(x, i, err) ==
  LET rd1 == IF err THEN x.rd ELSE push(x.rd, i)
      ev1 == IF err THEN Append(x.ev, Event("error", i))
             ELSE x.ev \o <<Event("info", i), Event("push", i)>>
  IN [rd |-> [rd1 EXCEPT !.eof = TRUE],
      ev |-> ev1 \o <<Event("eof", i), Event("close", i)>>]

\* the completion callback of stream mode for engine call i; x = [rd, ev]
streamComplete(x, i, err) ==
  LET rd1 == IF err THEN x.rd ELSE push(x.rd, i)
      ev1 == IF err THEN Append(x.ev, Event("error", i))
             ELSE x.ev \o <<Event("info", i), Event("push", i)>>
  IN [rd |-> [rd1 EXCEPT !.eof = TRUE, !.endListeners = Append(@, i)],
      ev |-> Append(ev1, Event("eof", i))]

\* the completion callback of promise mode: how the promise settles
promiseComplete(o, err) ==
  IF err THEN "rejected"
  ELSE IF o.resolveWithObject THEN "object"
  ELSE "data"

\* a promise settles once
Settle(job, outcome) ==
  IF job.promise = "pending" THEN [job EXCEPT !.promise = outcome] ELSE job

\* the caller's callback is invoked
Callback(job, err) == [job EXCEPT !.cb = @ + 1, !.cbErr = err]

-----------------------------------------------------------------------------
(* The inputs the actions draw from *)

PIn == Path(FALSE, <<"in">>, ".jpg")
PDotIn == Path(FALSE, <<".", "in">>, ".jpg")
PAbsIn == Path(TRUE, <<"cwd", "in">>, ".jpg")
POut == Path(FALSE, <<"out">>, ".png")
PJp2 == Path(FALSE, <<"out">>, ".J2K")

InputValues == {Undefined, Str(PIn), Buf(<<7>>)}
Builds == {[jp2kFile |-> FALSE, jp2kBuffer |-> FALSE, heif |-> TRUE],
           [jp2kFile |-> TRUE, jp2kBuffer |-> TRUE, heif |-> FALSE]}
Chunks == {Buf(<<1>>), Buf(<<2, 3>>), Str("text")}
FileOutArgs == {Undefined, Str(PDotIn), Str(PAbsIn), Str(POut), Str(PJp2)}
ToBufferCalls == {<<Undefined, Undefined>>, <<Undefined, Fn>>, <<Fn, Undefined>>,
                  <<EmptyObj, Undefined>>,
                  <<Obj([resolveWithObject |-> Bool(TRUE)]), Undefined>>,
                  <<Obj([resolveWithObject |-> Bool(FALSE)]), Undefined>>}
Callbacks == {Undefined, Fn}

Last(op, arg, arg2, ret, err, pre) ==
  [op |-> op, arg |-> arg, arg2 |-> arg2, ret |-> ret, err |-> err, pre |-> pre]

NewJob(op, m, arg, callback) ==
  [op |-> op, mode |-> m.mode, cb |-> IF m.guard # "" /\ m.mode = "callback" THEN 1 ELSE 0,
   cbErr |-> m.guard # "" /\ m.mode = "callback",
   promise |-> IF m.mode # "promise" \/ m.ret # m.mode THEN "none"
               ELSE "pending",
   rejected |-> m.ret = "rejected",
   rwo |-> Get(arg, "resolveWithObject") = Bool(TRUE),
   arg |-> arg, hasCb |-> isFn(arg) \/ isFn(callback),
   preFinish |-> ~writable.finished, streamIn |-> isStreamInput(options),
   before |-> options.fileOut, after |-> m.o.fileOut,
   rwoAfter |-> m.o.resolveWithObject,
   guard |-> m.guard, ret |-> m.ret]

-----------------------------------------------------------------------------
(* Initial state: a new instance on one of the inputs *)

InitWith(input) ==
  /\ options = NewOptions(createInputDescriptor(input))
  /\ build \in Builds
  /\ streamInFinished = FALSE
  /\ writable = [ended |-> FALSE, finished |-> FALSE]
  /\ finishListeners = <<>>
  /\ jobs = <<>>
  /\ engine = <<>>
  /\ readable = [queue |-> <<>>, eof |-> FALSE, endEmitted |-> FALSE, endListeners |-> <<>>]
  /\ events = <<>>
  /\ last = Last("new", input, Undefined, "this", "", NewOptions(createInputDescriptor(input)))
  /\ hist = [written |-> <<>>, bytes |-> <<>>, writes |-> 0, pulls |-> 0, calls |-> 0,
             flattens |-> 0, log |-> <<>>]

Init == \E input \in InputValues : InitWith(input)

\* the part of the state a handler of the dispatcher may change
Apply(m) ==
  /\ options' = m.o
  /\ engine' = m.eng
  /\ finishListeners' = m.ls
  /\ streamInFinished' = m.sif

-----------------------------------------------------------------------------
(* Actions of the dispatcher *)

\* the Writable side hands a chunk to _write
Write(chunk) ==
  /\ ~writable.ended
  /\ hist.writes < MaxWrites
  /\ LET m == write(Machine, chunk)
     IN /\ Apply(m)
        /\ hist' = [hist EXCEPT !.writes = @ + 1,
                                !.written = IF m.guard = "" THEN Append(@, chunk) ELSE @,
                                !.bytes = IF m.guard = "" THEN @ \o chunk.v ELSE @]
        /\ UNCHANGED last
  /\ UNCHANGED <<build, writable, jobs, readable, events>>

\* end() is called on the Writable side
End ==
  /\ ~writable.ended
  /\ writable' = [writable EXCEPT !.ended = TRUE]
  /\ UNCHANGED last
  /\ UNCHANGED <<options, build, streamInFinished, finishListeners, jobs, engine,
                 readable, events, hist>>

\* the Writable side sets writableFinished and emits 'finish'
Finish ==
  /\ writable.ended
  /\ ~writable.finished
  /\ writable' = [writable EXCEPT !.finished = TRUE]
  /\ LET m == emitFinish(Machine, TRUE)
     IN /\ Apply(m)
        /\ hist' = [hist EXCEPT !.flattens = m.fl]
  /\ UNCHANGED last
  /\ UNCHANGED <<build, jobs, readable, events>>

\* the Readable side asks for data
Read ==
  /\ hist.pulls < MaxPulls
  /\ options.streamOut \/ Len(jobs) < MaxJobs
  /\ LET m == read(Machine, Len(jobs) + 1, writable.finished)
     IN /\ Apply(m)
        /\ jobs' = IF options.streamOut THEN jobs
                   ELSE Append(jobs, NewJob("read", m, Undefined, Undefined))
        /\ hist' = [hist EXCEPT !.pulls = @ + 1, !.flattens = m.fl]
        /\ UNCHANGED last
  /\ UNCHANGED <<build, writable, readable, events>>

ToBuffer(a, callback) ==
  /\ Len(jobs) < MaxJobs
  /\ LET m == toBuffer(Machine, a, callback, Len(jobs) + 1, writable.finished)
     IN /\ Apply(m)
        /\ jobs' = IF m.ret = "throw" THEN jobs
                   ELSE Append(jobs, NewJob("toBuffer", m, a, callback))
        /\ hist' = [hist EXCEPT !.flattens = m.fl]
        /\ UNCHANGED last
  /\ UNCHANGED <<build, writable, readable, events>>

ToFile(fileOut, callback) ==
  /\ Len(jobs) < MaxJobs
  /\ LET m == toFile(Machine, fileOut, callback, Len(jobs) + 1, writable.finished, build)
     IN /\ Apply(m)
        /\ jobs' = Append(jobs, NewJob("toFile", m, fileOut, callback))
        /\ hist' = [hist EXCEPT !.flattens = m.fl]
        /\ UNCHANGED last
  /\ UNCHANGED <<build, writable, readable, events>>

Metadata(callback) ==
  /\ Len(jobs) < MaxJobs
  /\ LET m == metadata(Machine, callback, Len(jobs) + 1, writable.finished)
     IN /\ Apply(m)
        /\ jobs' = Append(jobs, NewJob("metadata", m, Undefined, callback))
        /\ hist' = [hist EXCEPT !.flattens = m.fl]
        /\ UNCHANGED last
  /\ UNCHANGED <<build, writable, readable, events>>

Stats(callback) ==
  /\ Len(jobs) < MaxJobs
  /\ LET m == stats(Machine, callback, Len(jobs) + 1, writable.finished)
     IN /\ Apply(m)
        /\ jobs' = Append(jobs, NewJob("stats", m, Undefined, callback))
        /\ hist' = [hist EXCEPT !.flattens = m.fl]
        /\ UNCHANGED last
  /\ UNCHANGED <<build, writable, readable, events>>

\* the engine calls back for its i-th invocation, with or without an error
EngineComplete(i, err) ==
  /\ i \in 1..Len(engine)
  /\ ~engine[i].done
  /\ engine' = [engine EXCEPT ![i].done = TRUE, ![i].err = err]
  /\ LET j == engine[i].job
         x == IF jobs[j].mode = "stream"
                THEN streamComplete([rd |-> readable, ev |-> events], i, err)
                ELSE [rd |-> readable, ev |-> events]
     IN /\ jobs' = [jobs EXCEPT ![j] =
                      CASE jobs[j].mode = "callback" -> Callback(@, err)
                        [] jobs[j].mode = "promise" ->
                             Settle(@, IF engine[i].op = "pipeline"
                                         THEN promiseComplete(options, err)
                                       ELSE IF err THEN "rejected" ELSE "value")
                        [] OTHER -> @]
        /\ readable' = x.rd
        /\ events' = x.ev
  /\ UNCHANGED last
  /\ UNCHANGED <<options, build, streamInFinished, writable, finishListeners, hist>>

\* the consumer of the Readable side takes the next queued data
Consume ==
  /\ readable.queue # <<>>
  /\ readable' = [readable EXCEPT !.queue = Tail(@)]
  /\ events' = Append(events, Event("data", Head(readable.queue)))
  /\ UNCHANGED last
  /\ UNCHANGED <<options, build, streamInFinished, writable, finishListeners, jobs,
                 engine, hist>>

\* the Readable side emits 'end' once everything pushed was consumed; the
\* 'end' listeners registered by then each emit 'close'
EmitEnd ==
  /\ readable.eof
  /\ readable.queue = <<>>
  /\ ~readable.endEmitted
  /\ readable' = [readable EXCEPT !.endEmitted = TRUE]
  /\ events' = Append(events, Event("end", 0)) \o
                 [k \in 1..Len(readable.endListeners) |->
                    Event("close", readable.endListeners[k])]
  /\ UNCHANGED last
  /\ UNCHANGED <<options, build, streamInFinished, writable, finishListeners, jobs,
                 engine, hist>>

Next ==
  \/ \E chunk \in Chunks : Write(chunk)
  \/ End
  \/ Finish
  \/ Read
  \/ \E c \in ToBufferCalls : ToBuffer(c[1], c[2])
  \/ \E fileOut \in FileOutArgs, callback \in Callbacks : ToFile(fileOut, callback)
  \/ \E callback \in Callbacks : Metadata(callback)
  \/ \E callback \in Callbacks : Stats(callback)
  \/ \E i \in 1..MaxJobs, err \in BOOLEAN : EngineComplete(i, err)
  \/ Consume
  \/ EmitEnd

Spec == Init /\ [][Next]_vars


-----------------------------------------------------------------------------
(* The option resolvers as operations on an instance.  Every call is       *)
(* recorded in hist.log with its argument, the Job Options it found and    *)
(* the parameter it threw for, so that claims can relate successive calls. *)

JpegArgs ==
  {Undefined, EmptyObj, Obj([force |-> Bool(FALSE)]),
   Obj([quality |-> Integer(0)]), Obj([quality |-> Integer(1)]),
   Obj([quality |-> Integer(50)]), Obj([quality |-> Integer(100)]),
   Obj([quality |-> Integer(101)]), Obj([quality |-> Num(101, 2)]),
   Obj([quality |-> Str("high")]),
   Obj([quality |-> Integer(50), force |-> Bool(FALSE)]),
   Obj([quality |-> Integer(60), progressive |-> Integer(1)]),
   Obj([progressive |-> Bool(TRUE)]), Obj([progressive |-> Bool(FALSE)]),
   Obj([optimiseScans |-> Bool(TRUE)]), Obj([optimizeScans |-> Bool(TRUE)]),
   Obj([optimiseScans |-> Bool(FALSE)]),
   Obj([mozjpeg |-> Bool(TRUE)]), Obj([mozjpeg |-> Bool(FALSE)]),
   Obj([mozjpeg |-> Str("yes")]),
   Obj([chromaSubsampling |-> Str("4:4:4")]), Obj([chromaSubsampling |-> Str("4:2:2")]),
   Obj([optimiseCoding |-> Bool(FALSE)]), Obj([optimizeCoding |-> Bool(FALSE)]),
   Obj([trellisQuantisation |-> Bool(TRUE)]), Obj([overshootDeringing |-> Bool(TRUE)]),
   Obj([quantisationTable |-> Integer(8)]), Obj([quantizationTable |-> Integer(9)])}

PngArgs ==
  {Undefined, EmptyObj, Obj([force |-> Bool(FALSE)]),
   Obj([progressive |-> Bool(TRUE)]), Obj([compressionLevel |-> Integer(9)]),
   Obj([compressionLevel |-> Integer(10)]), Obj([adaptiveFiltering |-> Bool(TRUE)]),
   Obj([palette |-> Bool(TRUE)]), Obj([palette |-> Bool(FALSE)]),
   Obj([quality |-> Integer(50)]), Obj([quality |-> Integer(101)]),
   Obj([palette |-> Bool(FALSE), quality |-> Integer(101)]),
   Obj([effort |-> Integer(10)]), Obj([effort |-> Integer(0)]),
   Obj([colours |-> Integer(2)]), Obj([colours |-> Integer(16)]),
   Obj([colors |-> Integer(256)]), Obj([colours |-> Integer(257)]),
   Obj([colours |-> Integer(0), colors |-> Integer(4)]),
   Obj([dither |-> Num(1, 2)]), Obj([dither |-> Integer(2)])}

WebpArgs ==
  {Undefined, EmptyObj, Obj([force |-> Bool(FALSE)]),
   Obj([quality |-> Integer(50)]), Obj([quality |-> Integer(0)]),
   Obj([alphaQuality |-> Integer(0)]), Obj([alphaQuality |-> Integer(101)]),
   Obj([lossless |-> Bool(TRUE)]), Obj([nearLossless |-> Bool(TRUE)]),
   Obj([smartSubsample |-> Bool(TRUE)]), Obj([smartDeblock |-> Str("on")]),
   Obj([preset |-> Str("photo")]), Obj([preset |-> Str("film")]),
   Obj([effort |-> Integer(6)]), Obj([effort |-> Integer(7)]),
   Obj([minSize |-> Bool(TRUE)]), Obj([mixed |-> Bool(TRUE)]),
   Obj([loop |-> Integer(0)]), Obj([loop |-> Integer(65536)]),
   Obj([delay |-> Integer(100)]), Obj([delay |-> Arr(<<Integer(10), Integer(20)>>)]),
   Obj([delay |-> Arr(<<Integer(10), Integer(-1)>>)])}

GifArgs ==
  {Undefined, EmptyObj, Obj([force |-> Bool(FALSE)]),
   Obj([reuse |-> Bool(FALSE)]), Obj([progressive |-> Bool(TRUE)]),
   Obj([colours |-> Integer(128)]), Obj([colors |-> Integer(1)]),
   Obj([effort |-> Integer(1)]), Obj([effort |-> Num(5, 2)]), Obj([effort |-> Integer(11)]),
   Obj([dither |-> Integer(0)]), Obj([interFrameMaxError |-> Integer(32)]),
   Obj([interFrameMaxError |-> Integer(33)]), Obj([interPaletteMaxError |-> Integer(256)]),
   Obj([keepDuplicateFrames |-> Bool(TRUE)]), Obj([keepDuplicateFrames |-> Integer(1)]),
   Obj([loop |-> Integer(3)]), Obj([delay |-> Str("slow")])}

Jp2Args ==
  {Undefined, EmptyObj, Obj([force |-> Bool(FALSE)]),
   Obj([quality |-> Integer(100)]), Obj([quality |-> Integer(101)]),
   Obj([lossless |-> Bool(TRUE)]), Obj([lossless |-> Integer(1)]),
   Obj([tileWidth |-> Integer(32768)]), Obj([tileWidth |-> Integer(0)]),
   Obj([tileHeight |-> Integer(1)]), Obj([tileHeight |-> Integer(32769)]),
   Obj([chromaSubsampling |-> Str("4:2:0")])}

TiffArgs ==
  {Undefined, EmptyObj, Obj([force |-> Bool(FALSE)]),
   Obj([quality |-> Integer(1)]), Obj([quality |-> Integer(0)]),
   Obj([bitdepth |-> Integer(4)]), Obj([bitdepth |-> Integer(3)]),
   Obj([tile |-> Bool(TRUE)]), Obj([tileWidth |-> Integer(1)]),
   Obj([tileWidth |-> Integer(0)]), Obj([tileHeight |-> Integer(-1)]),
   Obj([miniswhite |-> Bool(TRUE)]), Obj([pyramid |-> Bool(TRUE)]),
   Obj([xres |-> Num(5, 2)]), Obj([xres |-> Integer(0)]), Obj([yres |-> Integer(3)]),
   Obj([compression |-> Str("lzw")]), Obj([compression |-> Str("zip")]),
   Obj([predictor |-> Str("float")]), Obj([resolutionUnit |-> Str("cm")])}

HeifArgs ==
  {Undefined, EmptyObj, Obj([force |-> Bool(FALSE)]),
   Obj([compression |-> Str("hevc")]), Obj([compression |-> Str("av1")]),
   Obj([compression |-> Str("jpeg")]),
   Obj([compression |-> Str("hevc"), force |-> Bool(FALSE)]),
   Obj([compression |-> Str("av1"), quality |-> Integer(101)]),
   Obj([compression |-> Str("hevc"), quality |-> Integer(90)]),
   Obj([compression |-> Str("av1"), lossless |-> Bool(TRUE)]),
   Obj([compression |-> Str("av1"), effort |-> Integer(9)]),
   Obj([compression |-> Str("av1"), effort |-> Integer(10)]),
   Obj([compression |-> Str("av1"), chromaSubsampling |-> Str("4:2:0")]),
   Obj([compression |-> Str("av1"), bitdepth |-> Integer(8)]),
   Obj([compression |-> Str("av1"), bitdepth |-> Integer(10)]),
   Obj([compression |-> Str("av1"), bitdepth |-> Integer(9)])}

AvifArgs ==
  {Undefined, EmptyObj, Obj([force |-> Bool(FALSE)]),
   Obj([compression |-> Str("hevc")]), Obj([quality |-> Integer(30)]),
   Obj([quality |-> Integer(0)]), Obj([lossless |-> Bool(TRUE)]),
   Obj([effort |-> Integer(0)]), Obj([bitdepth |-> Integer(12)]),
   Obj([chromaSubsampling |-> Str("4:2:0")])}

JxlArgs ==
  {Undefined, EmptyObj, Obj([force |-> Bool(FALSE)]),
   Obj([quality |-> Integer(90)]), Obj([quality |-> Integer(10)]),
   Obj([quality |-> Integer(0)]), Obj([distance |-> Num(3, 2)]),
   Obj([distance |-> Integer(16)]),
   Obj([quality |-> Integer(90), distance |-> Integer(16)]),
   Obj([decodingTier |-> Integer(4)]), Obj([decodingTier |-> Integer(5)]),
   Obj([lossless |-> Bool(TRUE)]), Obj([effort |-> Integer(9)]),
   Obj([effort |-> Integer(0)]), Obj([loop |-> Integer(1)])}

RawArgs ==
  {Undefined, EmptyObj, Obj([force |-> Bool(FALSE)]),
   Obj([depth |-> Str("ushort")]), Obj([depth |-> Str("long")]),
   Obj([depth |-> Str("float"), force |-> Bool(FALSE)])}

TileArgs ==
  {Undefined, EmptyObj, Obj([force |-> Bool(FALSE)]),
   Obj([size |-> Integer(512)]), Obj([size |-> Integer(0)]), Obj([size |-> Integer(8193)]),
   Obj([overlap |-> Integer(256)]), Obj([overlap |-> Integer(257)]),
   Obj([size |-> Integer(128), overlap |-> Integer(129)]),
   Obj([size |-> Integer(512), overlap |-> Integer(512)]),
   Obj([container |-> Str("zip")]), Obj([layout |-> Str("google")]),
   Obj([layout |-> Str("google"), skipBlanks |-> Integer(0)]),
   Obj([layout |-> Str("iiif")]), Obj([layout |-> Str("osm")]),
   Obj([angle |-> Integer(90)]), Obj([angle |-> Integer(-180)]),
   Obj([angle |-> Integer(45)]),
   Obj([background |-> Arr(<<Integer(0), Integer(0), Integer(0), Integer(255)>>)]),
   Obj([depth |-> Str("one")]), Obj([skipBlanks |-> Integer(65536)]),
   Obj([centre |-> Bool(TRUE)]), Obj([center |-> Bool(TRUE)]),
   Obj([id |-> Str("https://example.org/x")]), Obj([basename |-> Str("tiles")]),
   Obj([basename |-> Integer(1)])}

FormatNames ==
  {Str(n) : n \in {"heic", "heif", "avif", "jpeg", "jpg", "jpe", "tile", "dz", "png", "raw",
                   "tiff", "tif", "webp", "gif", "jp2", "jpx", "j2k", "j2c", "jxl"}} \cup
  {Str("JPEG"), Str("Jpg"), Str("PNG"), Str("Heic"), Str("AVIF"), Str("DZ"), Str("Tif"),
   Str("WebP"), Str("J2K"), Str("JXL"), Str("bmp"), Str("BMP"),
   Obj([id |-> Str("png")]), Obj([id |-> Str("RAW")]), Obj([id |-> Integer(1)]), Undefined}

ToFormatOptions ==
  {Undefined, Obj([quality |-> Integer(50)]), Obj([quality |-> Integer(0)]),
   Obj([force |-> Bool(FALSE)])}

\* a resolver is called: the options it leaves behind, and an entry in the log
ResolverCall(op, arg, arg2, r) ==
  /\ hist.calls < MaxCalls
  /\ options' = r.o
  /\ last' = Last(op, arg, arg2, IF r.err = "" THEN "this" ELSE "throw", r.err, options)
  /\ hist' = [hist EXCEPT !.calls = @ + 1, !.log = Append(@, last')]
  /\ UNCHANGED <<build, streamInFinished, writable, finishListeners, jobs, engine,
                 readable, events>>

Jpeg(a) == ResolverCall("jpeg", a, Undefined, jpeg(options, a))
Png(a) == ResolverCall("png", a, Undefined, png(options, a))
Webp(a) == ResolverCall("webp", a, Undefined, webp(options, a))
Gif(a) == ResolverCall("gif", a, Undefined, gif(options, a))
Jp2(a) == ResolverCall("jp2", a, Undefined, jp2(options, a, build))
Tiff(a) == ResolverCall("tiff", a, Undefined, tiff(options, a))
Avif(a) == ResolverCall("avif", a, Undefined, avif(options, a, build))
Heif(a) == ResolverCall("heif", a, Undefined, heif(options, a, build))
Jxl(a) == ResolverCall("jxl", a, Undefined, jxl(options, a))
Raw(a) == ResolverCall("raw", a, Undefined, raw(options, a))
Tile(a) == ResolverCall("tile", a, Undefined, tile(options, a))
ToFormat(format, a) == ResolverCall("toFormat", format, a, toFormat(options, format, a, build))

Timeout(a) == ResolverCall("timeout", a, Undefined, timeout(options, a))

InitOpts == InitWith(Buf(<<7>>))

NextOpts ==
  \/ \E a \in JpegArgs : Jpeg(a)
  \/ \E a \in PngArgs : Png(a)
  \/ \E a \in WebpArgs : Webp(a)
  \/ \E a \in GifArgs : Gif(a)
  \/ \E a \in Jp2Args : Jp2(a)
  \/ \E a \in TiffArgs : Tiff(a)
  \/ \E a \in AvifArgs : Avif(a)
  \/ \E a \in HeifArgs : Heif(a)
  \/ \E a \in JxlArgs : Jxl(a)
  \/ \E a \in RawArgs : Raw(a)
  \/ \E a \in TileArgs : Tile(a)
  \/ \E format \in FormatNames, a \in ToFormatOptions : ToFormat(format, a)

SpecOpts == InitOpts /\ [][NextOpts]_vars

-----------------------------------------------------------------------------
(* The integer options with a range, called at and just outside the ends of *)
(* the range, alone or with another valid option in the same call           *)

RangeOption(op, key, field, min, max) ==
  [op |-> op, key |-> key, field |-> field, min |-> min, max |-> max]

RangeOptions ==
  {RangeOption("jpeg", "quality", "jpegQuality", 1, 100),
   RangeOption("jpeg", "quantisationTable", "jpegQuantisationTable", 0, 8),
   RangeOption("png", "compressionLevel", "pngCompressionLevel", 0, 9),
   RangeOption("png", "quality", "pngQuality", 0, 100),
   RangeOption("png", "effort", "pngEffort", 1, 10),
   RangeOption("webp", "quality", "webpQuality", 1, 100),
   RangeOption("webp", "alphaQuality", "webpAlphaQuality", 0, 100),
   RangeOption("webp", "effort", "webpEffort", 0, 6),
   RangeOption("webp", "loop", "loop", 0, 65535),
   RangeOption("gif", "loop", "loop", 0, 65535),
   RangeOption("heif", "quality", "heifQuality", 1, 100),
   RangeOption("heif", "effort", "heifEffort", 0, 9),
   RangeOption("jxl", "decodingTier", "jxlDecodingTier", 0, 4),
   RangeOption("jxl", "effort", "jxlEffort", 1, 9),
   RangeOption("jxl", "loop", "loop", 0, 65535),
   RangeOption("tile", "size", "tileSize", 1, 8192),
   RangeOption("tile", "skipBlanks", "tileSkipBlanks", -1, 65535),
   RangeOption("timeout", "seconds", "timeoutSeconds", 0, 3600)}

\* the values at and next to the ends of the range
EndsOf(row) == {row.min - 1, row.min, row.max, row.max + 1}

\* the other valid options a call of the resolver is made with
CompanionsOf(op) ==
  CASE op = "jpeg" -> {EmptyObj, Obj([mozjpeg |-> Bool(TRUE)])}
    [] op = "png" -> {EmptyObj, Obj([palette |-> Bool(FALSE)]), Obj([palette |-> Bool(TRUE)])}
    [] op = "webp" -> {EmptyObj, Obj([lossless |-> Bool(TRUE)])}
    [] op = "gif" -> {EmptyObj, Obj([reuse |-> Bool(FALSE)])}
    [] op = "heif" -> {Obj([compression |-> Str("av1")]), Obj([compression |-> Str("hevc")])}
    [] op = "jxl" -> {EmptyObj, Obj([lossless |-> Bool(TRUE)])}
    [] op = "tile" -> {EmptyObj, Obj([layout |-> Str("google")])}
    [] OTHER -> {EmptyObj}

\* the options object with the ranged key set to n beside the companion's keys
RangeArg(row, n, companion) ==
  Obj([k \in DOMAIN companion.v \cup {row.key} |->
         IF k = row.key THEN Integer(n) ELSE companion.v[k]])

NextRange ==
  \E row \in RangeOptions : \E n \in EndsOf(row), companion \in CompanionsOf(row.op) :
    LET a == RangeArg(row, n, companion)
    IN \/ row.op = "jpeg" /\ Jpeg(a)
       \/ row.op = "png" /\ Png(a)
       \/ row.op = "webp" /\ Webp(a)
       \/ row.op = "gif" /\ Gif(a)
       \/ row.op = "heif" /\ Heif(a)
       \/ row.op = "jxl" /\ Jxl(a)
       \/ row.op = "tile" /\ Tile(a)
       \/ row.op = "timeout" /\ Timeout(a)

SpecRange == InitOpts /\ [][NextRange]_vars

-----------------------------------------------------------------------------
(* The options with two spellings, each called with one spelling alone and  *)
(* values of the right and of the wrong type                                *)

AliasPair(op, british, american) == [op |-> op, british |-> british, american |-> american]

AliasPairs ==
  {AliasPair("png", "colours", "colors"),
   AliasPair("gif", "colours", "colors"),
   AliasPair("jpeg", "optimiseCoding", "optimizeCoding"),
   AliasPair("jpeg", "optimiseScans", "optimizeScans"),
   AliasPair("jpeg", "trellisQuantisation", "trellisQuantization"),
   AliasPair("jpeg", "quantisationTable", "quantizationTable"),
   AliasPair("tile", "centre", "center")}

AliasValues ==
  {Bool(TRUE), Bool(FALSE), Integer(0), Integer(1), Integer(8), Integer(16), Integer(300),
   Num(5, 2), Str(""), Str("yes")}

\* the options object with the one key set
OneOption(key, v) == Obj([k \in {key} |-> v])

NextAlias ==
  \E pair \in AliasPairs, v \in AliasValues : \E key \in {pair.british, pair.american} :
    LET a == OneOption(key, v)
    IN \/ pair.op = "png" /\ Png(a)
       \/ pair.op = "gif" /\ Gif(a)
       \/ pair.op = "jpeg" /\ Jpeg(a)
       \/ pair.op = "tile" /\ Tile(a)

SpecAlias == InitOpts /\ [][NextAlias]_vars

-----------------------------------------------------------------------------
(* The metadata operations, in sequences of up to MaxMetaCalls calls        *)

MaxMetaCalls == 3

ExifArgs ==
  {Undefined, Str("x"), Entries(<<>>),
   Entries(<<Entry("IFD0", Entries(<<Entry("Copyright", Str("a"))>>))>>),
   Entries(<<Entry("IFD0", Entries(<<Entry("Copyright", Str("b")), Entry("Artist", Str("c"))>>))>>),
   Entries(<<Entry("ifd0", Entries(<<Entry("Copyright", Str("d"))>>))>>),
   Entries(<<Entry("IFD0", Str("x"))>>),
   Entries(<<Entry("IFD0", Entries(<<Entry("Artist", Str("e")), Entry("Copyright", Integer(1))>>))>>),
   Entries(<<Entry("IFD0", Entries(<<Entry("Artist", Str("f"))>>)), Entry("IFD2", Integer(3))>>),
   Entries(<<Entry("IFD0", Entries(<<Entry("Copyright", Str("g"))>>)),
             Entry("ifd0", Entries(<<Entry("Copyright", Str("h"))>>))>>)}

XmpArgs == {Undefined, Str(""), Str("<x:xmpmeta/>")}

IccArgs == {Undefined, Str("p3"), Str("srgb")}

IccOptions ==
  {Undefined, Obj([attach |-> Bool(TRUE)]), Obj([attach |-> Bool(FALSE)]),
   Obj([attach |-> Integer(1)])}

\* one call of a metadata operation with result r: the Job Options are r.o,
\* the call is logged
MetaCall(op, arg, arg2, r) ==
  /\ hist.calls < MaxMetaCalls
  /\ options' = r.o
  /\ last' = Last(op, arg, arg2, IF r.err = "" THEN "this" ELSE "throw", r.err, options)
  /\ hist' = [hist EXCEPT !.calls = @ + 1, !.log = Append(@, last')]
  /\ UNCHANGED <<build, streamInFinished, writable, finishListeners, jobs, engine, readable,
                 events>>

KeepExif == MetaCall("keepExif", Undefined, Undefined, keepExif(options))
WithExif(exif) == MetaCall("withExif", exif, Undefined, withExif(options, exif))
WithExifMerge(exif) == MetaCall("withExifMerge", exif, Undefined, withExifMerge(options, exif))
KeepIccProfile == MetaCall("keepIccProfile", Undefined, Undefined, keepIccProfile(options))
WithIccProfile(icc, opts) == MetaCall("withIccProfile", icc, opts, withIccProfile(options, icc, opts))
KeepXmp == MetaCall("keepXmp", Undefined, Undefined, keepXmp(options))
WithXmp(xmp) == MetaCall("withXmp", xmp, Undefined, withXmp(options, xmp))
KeepMetadata == MetaCall("keepMetadata", Undefined, Undefined, keepMetadata(options))

NextMeta ==
  \/ KeepExif
  \/ \E exif \in ExifArgs : WithExif(exif)
  \/ \E exif \in ExifArgs : WithExifMerge(exif)
  \/ KeepIccProfile
  \/ \E icc \in IccArgs, opts \in IccOptions : WithIccProfile(icc, opts)
  \/ KeepXmp
  \/ \E xmp \in XmpArgs : WithXmp(xmp)
  \/ KeepMetadata

SpecMeta == InitOpts /\ [][NextMeta]_vars

-----------------------------------------------------------------------------
(* Calls that throw: each resolver and metadata operation with an accepted  *)
(* call, a call whose only option is invalid, and a call whose invalid      *)
(* option comes after a valid one in the order of the source                *)

ThrowArgs ==
  [jpeg |-> {Obj([quality |-> Integer(60)]), Obj([quality |-> Integer(101)]),
             Obj([quality |-> Integer(50), progressive |-> Integer(1)])},
   png |-> {Obj([compressionLevel |-> Integer(9)]), Obj([compressionLevel |-> Integer(10)]),
            Obj([quality |-> Integer(101)]),
            Obj([progressive |-> Bool(TRUE), compressionLevel |-> Integer(10)])},
   webp |-> {Obj([quality |-> Integer(60)]), Obj([quality |-> Integer(0)]),
             Obj([quality |-> Integer(50), alphaQuality |-> Integer(101)])},
   gif |-> {Obj([reuse |-> Bool(FALSE)]), Obj([reuse |-> Integer(0)]),
            Obj([reuse |-> Bool(FALSE), effort |-> Integer(11)])},
   tiff |-> {Obj([quality |-> Integer(60)]), Obj([quality |-> Integer(0)]),
             Obj([quality |-> Integer(90), bitdepth |-> Integer(3)])},
   heif |-> {Obj([compression |-> Str("hevc")]), Obj([compression |-> Str("jpeg")]),
             Undefined, Obj([compression |-> Str("hevc"), quality |-> Integer(101)])},
   jxl |-> {Obj([effort |-> Integer(9)]), Obj([effort |-> Integer(0)]),
            Obj([lossless |-> Bool(TRUE), effort |-> Integer(0)])},
   tile |-> {Obj([size |-> Integer(512)]), Obj([size |-> Integer(0)]),
             Obj([size |-> Integer(128), overlap |-> Integer(129)])},
   timeout |-> {Obj([seconds |-> Integer(3)]), Obj([seconds |-> Integer(3601)]), Undefined,
                EmptyObj}]

WithMetadataArgs ==
  {Undefined, EmptyObj, Obj([orientation |-> Integer(3)]), Obj([orientation |-> Integer(9)]),
   Obj([density |-> Integer(96)]), Obj([density |-> Integer(0)]),
   Obj([orientation |-> Integer(3), density |-> Integer(-1)]),
   Obj([density |-> Num(145, 2), icc |-> Integer(1)]),
   Obj([icc |-> Str("p3"), exif |-> Str("x")]),
   Obj([exif |-> Entries(<<Entry("IFD0", Entries(<<Entry("Copyright", Str("a"))>>))>>)])}

WithMetadata(a) == MetaCall("withMetadata", a, Undefined, withMetadata(options, a))

NextThrow ==
  \/ \E a \in ThrowArgs.jpeg : Jpeg(a)
  \/ \E a \in ThrowArgs.png : Png(a)
  \/ \E a \in ThrowArgs.webp : Webp(a)
  \/ \E a \in ThrowArgs.gif : Gif(a)
  \/ \E a \in ThrowArgs.tiff : Tiff(a)
  \/ \E a \in ThrowArgs.heif : Heif(a)
  \/ \E a \in ThrowArgs.jxl : Jxl(a)
  \/ \E a \in ThrowArgs.tile : Tile(a)
  \/ \E a \in ThrowArgs.timeout : Timeout(a)
  \/ \E exif \in ExifArgs : WithExif(exif)
  \/ \E a \in WithMetadataArgs : WithMetadata(a)

SpecThrow == InitOpts /\ [][NextThrow]_vars

-----------------------------------------------------------------------------
(* lib/input.js: _createInputDescriptor in full for the input kinds and the *)
(* options failOn, density, raw, create and text.  The descriptor is a map  *)
(* from the names of the properties that are set to their values; the join  *)
(* state lives on the instance, in options.joining and options.join.        *)

\* a typed array of the given constructor over the given elements
TypedArray(ctor, elems) == [t |-> "typedarray", ctor |-> ctor, v |-> elems]
isTypedArray(x) == x.t = "typedarray"

\* one byte for an element of every typed array
OneBytePerElement(ctor) == 1

\* BYTES_PER_ELEMENT of a typed array constructor
BytesPerElement(ctor) ==
  CASE ctor \in {"Uint8Array", "Uint8ClampedArray", "Int8Array"} -> 1
    [] ctor \in {"Uint16Array", "Int16Array"} -> 2
    [] ctor \in {"Uint32Array", "Int32Array", "Float32Array"} -> 4
    [] OTHER -> 8

\* the n bytes of an unsigned element, least significant first
LittleEndian(x, n) == [i \in 1..n |-> (x \div 256^(i - 1)) % 256]

\* Buffer.from(input.buffer, input.byteOffset, input.byteLength): the bytes
\* under the elements
RECURSIVE BufferFrom(_, _)
BufferFrom(elems, n) ==
  IF elems = <<>> THEN <<>>
  ELSE LittleEndian(Head(elems), n) \o BufferFrom(Tail(elems), n)

\* the switch on input.constructor of the raw option
rawDepthOf(input) ==
  IF ~isTypedArray(input) THEN "uchar"
  ELSE CASE input.ctor \in {"Uint8Array", "Uint8ClampedArray"} -> "uchar"
         [] input.ctor = "Int8Array" -> "char"
         [] input.ctor = "Uint16Array" -> "ushort"
         [] input.ctor = "Int16Array" -> "short"
         [] input.ctor = "Uint32Array" -> "uint"
         [] input.ctor = "Int32Array" -> "int"
         [] input.ctor = "Float32Array" -> "float"
         [] input.ctor = "Float64Array" -> "double"
         [] OTHER -> "uchar"

\* const inputStreamParameters, and _inputOptionsFromObject(obj) being defined
inputStreamParameters ==
  {"failOn", "limitInputPixels", "unlimited", "animated", "autoOrient", "density", "ignoreIcc",
   "page", "pages", "sequentialRead", "jp2", "openSlide", "pdf", "raw", "svg", "tiff",
   "failOnError", "openSlideLevel", "pdfBackground", "tiffSubifd"}

inputOptionsFromObject(obj) == \E p \in inputStreamParameters : isDefined(Get(obj, p))

\* the descriptor a call starts from
NewDescriptor ==
  [autoOrient |-> FALSE, failOn |-> "warning", limitInputPixels |-> 268402689,
   ignoreIcc |-> FALSE, unlimited |-> FALSE, sequentialRead |-> TRUE]

\* delete d[key]
Delete(d, key) == [x \in DOMAIN d \ {key} |-> d[x]]

\* a call in progress: the descriptor d, the options being applied, the
\* message thrown ("" while none), and the join state of the instance
InputResult(d, io, err, joining, join) ==
  [d |-> d, io |-> io, err |-> err, joining |-> joining, join |-> join]

InputSet(r, key, v) == [r EXCEPT !.d = Put(@, key, v)]
InputThrow(r, msg) == [r EXCEPT !.err = msg]

\* the failOn option
inputFailOn(r) ==
  LET v == Get(r.io, "failOn")
  IN IF r.err # "" \/ ~isDefined(v) THEN r
     ELSE IF isString(v) /\ inArray(v.v, {"none", "truncated", "error", "warning"})
       THEN InputSet(r, "failOn", v.v)
     ELSE InputThrow(r, "failOn")

\* the density option
inputDensity(r) ==
  LET v == Get(r.io, "density")
  IN IF r.err # "" \/ ~isDefined(v) THEN r
     ELSE IF isNumber(v) /\ inRange(v, 1, 100000) THEN InputSet(r, "density", v)
     ELSE InputThrow(r, "density")

\* the pageHeight of raw and of create: a positive integer not above height
\* that divides it
inputPageHeight(r, group, field, name) ==
  LET v == Get(group, "pageHeight")
      height == Get(group, "height")
  IN IF r.err # "" \/ ~isDefined(v) THEN r
     ELSE IF isInteger(v) /\ v.n > 0 /\ v.n <= height.n
       THEN IF height.n % v.n # 0 THEN InputThrow(r, "Expected " \o name \o ".height to be a multiple")
            ELSE InputSet(r, field, v.n)
     ELSE InputThrow(r, name \o ".pageHeight")

\* the raw option
inputRaw(r, input) ==
  LET rawOptions == Get(r.io, "raw")
      width == Get(rawOptions, "width")
      height == Get(rawOptions, "height")
      channels == Get(rawOptions, "channels")
      premultiplied == Get(rawOptions, "premultiplied")
  IN IF r.err # "" \/ ~isDefined(rawOptions) THEN r
     ELSE IF /\ isObject(rawOptions)
             /\ isInteger(width) /\ width.n > 0
             /\ isInteger(height) /\ height.n > 0
             /\ isInteger(channels) /\ inRange(channels, 1, 4)
       THEN LET r1 == InputSet(InputSet(InputSet(InputSet(r,
                        "rawWidth", width.n), "rawHeight", height.n),
                        "rawChannels", channels.n), "rawDepth", rawDepthOf(input))
                r2 == InputSet(r1, "rawPremultiplied", FALSE)
                r3 == IF ~isDefined(premultiplied) THEN r2
                      ELSE IF isBool(premultiplied)
                        THEN InputSet(r2, "rawPremultiplied", premultiplied.v)
                      ELSE InputThrow(r2, "raw.premultiplied")
            IN inputPageHeight(InputSet(r3, "rawPageHeight", 0), rawOptions, "rawPageHeight", "raw")
     ELSE InputThrow(r, "Expected width, height and channels for raw pixel input")

\* noise or background of the create option
inputCreateFill(r, createOptions) ==
  LET noise == Get(createOptions, "noise")
      channels == Get(createOptions, "channels")
  IN IF r.err # "" THEN r
     ELSE IF isDefined(noise)
       THEN IF ~isObject(noise) THEN InputThrow(r, "Expected noise to be an object")
            ELSE IF Get(noise, "type") # Str("gaussian")
              THEN InputThrow(r, "Only gaussian noise is supported at the moment")
            ELSE IF ~inRange(channels, 1, 4)
              THEN InputThrow(InputSet(r, "createNoiseType", "gaussian"), "create.channels")
            ELSE InputSet(InputSet(InputSet(r, "createNoiseType", "gaussian"),
                                   "createNoiseMean", 128), "createNoiseSigma", 30)
     ELSE IF isDefined(Get(createOptions, "background"))
       THEN IF ~inRange(channels, 3, 4) THEN InputThrow(r, "create.channels")
            ELSE InputSet(r, "createBackground", Get(createOptions, "background"))
     ELSE InputThrow(r, "Expected valid noise or background to create a new input image")

\* a create option that leaves the buffer on the descriptor
inputCreateKeepsBuffer(r) ==
  LET createOptions == Get(r.io, "create")
      r1 == InputSet(InputSet(InputSet(InputSet(r,
              "createWidth", Get(createOptions, "width").n),
              "createHeight", Get(createOptions, "height").n),
              "createChannels", Get(createOptions, "channels").n), "createPageHeight", 0)
  IN IF r.err # "" \/ ~isDefined(createOptions) THEN r
     ELSE inputCreateFill(r1, createOptions)

\* the create option
inputCreate(r) ==
  LET createOptions == Get(r.io, "create")
      width == Get(createOptions, "width")
      height == Get(createOptions, "height")
      channels == Get(createOptions, "channels")
  IN IF r.err # "" \/ ~isDefined(createOptions) THEN r
     ELSE IF /\ isObject(createOptions)
             /\ isInteger(width) /\ width.n > 0
             /\ isInteger(height) /\ height.n > 0
             /\ isInteger(channels)
       THEN LET r1 == InputSet(InputSet(InputSet(InputSet(r,
                        "createWidth", width.n), "createHeight", height.n),
                        "createChannels", channels.n), "createPageHeight", 0)
                r2 == inputPageHeight(r1, createOptions, "createPageHeight", "create")
                r3 == inputCreateFill(r2, createOptions)
            IN IF r3.err # "" THEN r3 ELSE [r3 EXCEPT !.d = Delete(@, "buffer")]
     ELSE InputThrow(r, "Expected valid width, height and channels to create a new input image")

\* the text option
inputText(r) ==
  LET text == Get(r.io, "text")
  IN IF r.err # "" \/ ~isDefined(text) THEN r
     ELSE IF isObject(text) /\ isString(Get(text, "text"))
       THEN LET r1 == InputSet(r, "textValue", Get(text, "text").v)
            IN IF isDefined(Get(text, "height")) /\ isDefined(Get(text, "dpi"))
                 THEN InputThrow(r1, "Expected only one of dpi or height")
               ELSE [r1 EXCEPT !.d = Delete(@, "buffer")]
     ELSE InputThrow(r, "Expected a valid string to create an image with text.")

\* _createInputDescriptor(input, inputOptions, containerOptions) on an
\* instance whose join state is joining, join
RECURSIVE createInputDescriptorFrom(_, _, _, _, _)
RECURSIVE joinMap(_, _, _, _)

\* a map that records the nested descriptors last element first
RECURSIVE joinMapReversed(_, _, _, _)
joinMapReversed(elems, i, acc, join) ==
  IF i > Len(elems) THEN InputResult(NewDescriptor, Undefined, "", TRUE, Arr(acc))
  ELSE LET e == createInputDescriptorFrom(elems[i], Undefined, Undefined, TRUE, join)
       IN IF e.err # "" THEN InputResult(NewDescriptor, Undefined, e.err, TRUE, join)
          ELSE joinMapReversed(elems, i + 1, <<e.d>> \o acc, join)

\* input.map(i => this._createInputDescriptor(i)), stopping at the first throw
joinMap(elems, i, acc, join) ==
  IF i > Len(elems) THEN InputResult(NewDescriptor, Undefined, "", TRUE, Arr(acc))
  ELSE LET e == createInputDescriptorFrom(elems[i], Undefined, Undefined, TRUE, join)
       IN IF e.err # "" THEN InputResult(NewDescriptor, Undefined, e.err, TRUE, join)
          ELSE joinMap(elems, i + 1, Append(acc, e.d), join)

createInputDescriptorFrom(input, inputOptions, containerOptions, joining, join) ==
  LET start == InputResult(NewDescriptor, inputOptions, "", joining, join)
      source ==
        IF isString(input) THEN InputSet(start, "file", input)
        ELSE IF isBuffer(input)
          THEN IF Len(input.v) = 0 THEN InputThrow(start, "Input Buffer is empty")
               ELSE InputSet(start, "buffer", input)
        ELSE IF isTypedArray(input)
          THEN IF Len(input.v) = 0 THEN InputThrow(start, "Input Bit Array is empty")
               ELSE InputSet(start, "buffer",
                             Buf(BufferFrom(input.v, BytesPerElement(input.ctor))))
        ELSE IF isPlainObject(input) /\ ~isDefined(inputOptions)
          THEN IF inputOptionsFromObject(input)
                 THEN [InputSet(start, "buffer", Arr(<<>>)) EXCEPT !.io = input]
               ELSE [start EXCEPT !.io = input]
        ELSE IF /\ ~isDefined(input) /\ ~isDefined(inputOptions)
                /\ isObject(containerOptions) /\ Truthy(Get(containerOptions, "allowStream"))
          THEN InputSet(start, "buffer", Arr(<<>>))
        ELSE IF isArray(input)
          THEN IF Len(input.v) > 1
                 THEN IF ~joining
                        THEN [joinMap(input.v, 1, <<>>, join) EXCEPT !.io = inputOptions]
                      ELSE InputThrow(start, "Recursive join is unsupported")
               ELSE InputThrow(start, "Expected at least two images to join")
        ELSE InputThrow(start, "Unsupported input")
  IN IF isObject(source.io)
       THEN inputText(inputCreate(inputRaw(inputDensity(inputFailOn(source)), input)))
     ELSE source

-----------------------------------------------------------------------------
(* Calls of _createInputDescriptor on one instance, as the constructor,     *)
(* composite, joinChannel and boolean make them                             *)

MaxInputCalls == 2

AllowStream == Obj([allowStream |-> Bool(TRUE)])

ImgA == Str(PIn)
ImgB == Buf(<<7>>)
ImgC == TypedArray("Uint8Array", <<1, 2, 3>>)

CreateOptions ==
  Obj([create |-> Obj([width |-> Integer(2), height |-> Integer(2), channels |-> Integer(3),
                       background |-> Str("red")])])

TextOptions == Obj([text |-> Obj([text |-> Str("hello")])])

SimpleInputs ==
  {Undefined, ImgA, ImgB, ImgC, Buf(<<>>), Integer(5), EmptyObj,
   Obj([density |-> Integer(72)]), CreateOptions, TextOptions,
   Obj([create |-> Get(CreateOptions, "create"), text |-> Get(TextOptions, "text")])}

ArrayInputs ==
  {Arr(<<>>), Arr(<<ImgA>>), Arr(<<ImgA, ImgB>>), Arr(<<ImgB, ImgA>>),
   Arr(<<ImgA, ImgB, ImgC>>), Arr(<<ImgC, CreateOptions>>),
   Arr(<<ImgA, Arr(<<ImgA, ImgB>>)>>), Arr(<<ImgA, Arr(<<ImgB>>)>>),
   Arr(<<ImgA, Integer(5)>>), Arr(<<ImgA, Undefined>>)}

InputOptionValues ==
  {Undefined, EmptyObj, Obj([failOn |-> Str("none")]), Obj([failOn |-> Str("never")]),
   CreateOptions, TextOptions,
   Obj([text |-> Obj([text |-> Str("hi"), height |-> Integer(9), dpi |-> Integer(72)])]),
   Obj([raw |-> Obj([width |-> Integer(1), height |-> Integer(3), channels |-> Integer(1)])])}

ContainerOptions == {Undefined, AllowStream}

\* one call of this._createInputDescriptor: the join state of the instance
\* is updated, the descriptor returned is logged with the call
CreateInputDescriptor(input, inputOptions, containerOptions) ==
  /\ hist.calls < MaxInputCalls
  /\ LET r == createInputDescriptorFrom(input, inputOptions, containerOptions,
                                        options.joining, options.join)
     IN /\ options' = [options EXCEPT !.joining = r.joining, !.join = r.join]
        /\ last' = [op |-> "createInputDescriptor", arg |-> input, arg2 |-> inputOptions,
                    ret |-> IF r.err = "" THEN "descriptor" ELSE "throw", err |-> r.err,
                    pre |-> options, d |-> r.d]
        /\ hist' = [hist EXCEPT !.calls = @ + 1, !.log = Append(@, last')]
  /\ UNCHANGED <<build, streamInFinished, writable, finishListeners, jobs, engine, readable,
                 events>>

\* a new instance before its input is described: no join state
NoJoinOptions ==
  LET o == NewOptions(createInputDescriptor(Undefined))
  IN [k \in DOMAIN o \cup {"joining", "join"} |->
        IF k = "joining" THEN FALSE ELSE IF k = "join" THEN Undefined ELSE o[k]]

InitInput ==
  /\ options = NoJoinOptions
  /\ build \in Builds
  /\ streamInFinished = FALSE
  /\ writable = [ended |-> FALSE, finished |-> FALSE]
  /\ finishListeners = <<>>
  /\ jobs = <<>>
  /\ engine = <<>>
  /\ readable = [queue |-> <<>>, eof |-> FALSE, endEmitted |-> FALSE, endListeners |-> <<>>]
  /\ events = <<>>
  /\ last = Last("new", Undefined, Undefined, "this", "", NoJoinOptions)
  /\ hist = [written |-> <<>>, bytes |-> <<>>, writes |-> 0, pulls |-> 0, calls |-> 0,
             flattens |-> 0, log |-> <<>>]

NextInput ==
  \E input \in SimpleInputs \cup ArrayInputs, inputOptions \in InputOptionValues,
     containerOptions \in ContainerOptions :
    CreateInputDescriptor(input, inputOptions, containerOptions)

SpecInput == InitInput /\ [][NextInput]_vars

-----------------------------------------------------------------------------
(* Raw pixel input: a Uint16Array described by raw options, in one call     *)

MaxRawCalls == 1

RawWidths == -1..3
RawHeights == 0..3
RawChannels == 0..5
RawPageHeights == -1..4

\* a Uint16Array of n elements, none of which fits one byte
Uint16Pixels(n) == TypedArray("Uint16Array", [i \in 1..n |-> 255 + 257 * i])

\* { raw: { width, height, channels } }, with pageHeight unless it is -1
RawOptions(w, h, c, ph) ==
  Obj([raw |-> Obj([k \in {"width", "height", "channels"}
                          \cup (IF ph = -1 THEN {} ELSE {"pageHeight"}) |->
                      CASE k = "width" -> Integer(w)
                        [] k = "height" -> Integer(h)
                        [] k = "channels" -> Integer(c)
                        [] OTHER -> Integer(ph)])])

NextRaw ==
  \E w \in RawWidths, h \in RawHeights, c \in RawChannels, ph \in RawPageHeights :
    /\ hist.calls < MaxRawCalls
    /\ CreateInputDescriptor(Uint16Pixels(IF w * h * c > 0 THEN w * h * c ELSE 1),
                             RawOptions(w, h, c, ph), Undefined)

SpecRaw == InitInput /\ [][NextRaw]_vars

-----------------------------------------------------------------------------
(* bitdepthFromColourCount applied to every colour count, through the       *)
(* colours option of png and the colors option of gif                       *)

ColourCounts == 1..257

NextColours ==
  \/ \E n \in ColourCounts :
       hist.calls < MaxColourCalls /\ Png(Obj([colours |-> Integer(n)]))
  \/ \E n \in ColourCounts :
       hist.calls < MaxColourCalls /\ Gif(Obj([colors |-> Integer(n)]))

SpecColours == InitOpts /\ [][NextColours]_vars

-----------------------------------------------------------------------------
(* Format selection followed by output calls on one instance *)

PXJpg == Path(FALSE, <<"x">>, ".jpg")
ChainFormats == {Str("webp"), Str("JPEG")}
ChainOptions == {Undefined, Obj([quality |-> Integer(50)])}
ChainFiles == {Undefined, Str(PXJpg), Str(POut)}

NextChain ==
  \/ \E format \in ChainFormats, a \in ChainOptions : ToFormat(format, a)
  \/ \E fileOut \in ChainFiles, callback \in Callbacks : ToFile(fileOut, callback)
  \/ \E i \in 1..MaxJobs, err \in BOOLEAN : EngineComplete(i, err)

SpecChain == InitOpts /\ [][NextChain]_vars

-----------------------------------------------------------------------------
(* Claims about the dispatcher *)

PipelineCalls == {i \in 1..Len(engine) : engine[i].op = "pipeline"}
CallsOf(j) == {i \in 1..Len(engine) : engine[i].job = j}
OutputJobs == {j \in 1..Len(jobs) : jobs[j].op \in {"toBuffer", "toFile", "read"}}
Positions(e, i) == {k \in 1..Len(events) : events[k] = Event(e, i)}

\* C1: on a stream-input instance, a toBuffer/toFile/stream job triggered
\* before the input finished invokes the engine only after 'finish', and the
\* engine is handed the bytes of every accepted chunk, in write order.
C1_DeferredUntilFinish ==
  \A i \in PipelineCalls :
    (jobs[engine[i].job].streamIn /\ jobs[engine[i].job].preFinish)
      => /\ engine[i].afterFinish
         /\ engine[i].input.buffer = Buf(hist.bytes)

C1_Witness ==
  \E i \in PipelineCalls :
    /\ jobs[engine[i].job].streamIn
    /\ jobs[engine[i].job].preFinish
    /\ Len(hist.written) = 2
    /\ hist.written[1] # hist.written[2]
    /\ engine[i].done

\* C2: the engine pipeline is invoked at most once per triggering call (all
\* pulls counting as the one trigger of the first pull), and no callback
\* given to toBuffer/toFile is invoked more than once.
C2_AtMostOncePerTrigger ==
  /\ Cardinality(PipelineCalls) <= Cardinality(OutputJobs)
  /\ \A j \in OutputJobs : Cardinality(CallsOf(j)) <= 1 /\ jobs[j].cb <= 1

C2_Witness ==
  /\ hist.pulls = MaxPulls
  /\ streamInFinished
  /\ \E j \in OutputJobs : jobs[j].op = "read" /\ CallsOf(j) # {}
  /\ \E j \in OutputJobs : jobs[j].mode = "callback" /\ jobs[j].cb = 1 /\ jobs[j].streamIn

\* C3: toBuffer or toFile called without a callback returns a Promise (a
\* rejected one when a toFile guard fails), never the instance.
C3_PromiseWithoutCallback ==
  \A j \in OutputJobs :
    (jobs[j].op \in {"toBuffer", "toFile"} /\ ~jobs[j].hasCb)
      => jobs[j].ret \in {"promise", "rejected"}

\* C4: a toBuffer promise resolves with {data, info} exactly when its own
\* call passed resolveWithObject: true, with the data alone otherwise, and
\* rejects when the engine reports an error, whatever toBuffer calls follow.
C4_ResolvesAsAsked ==
  \A j \in OutputJobs : \A i \in CallsOf(j) :
    (jobs[j].op = "toBuffer" /\ jobs[j].mode = "promise" /\ engine[i].done)
      => jobs[j].promise = IF engine[i].err THEN "rejected"
                           ELSE IF jobs[j].rwo THEN "object"
                           ELSE "data"

C6_GuardFails(a) ==
  \/ a.t # "string"
  \/ /\ options.input.file.t = "string"
     /\ pathResolve(a.v) = pathResolve(options.input.file.v)
  \/ /\ toLowerCase(a.v.ext) \in {".jp2", ".jpx", ".j2k", ".j2c"}
     /\ ~build.jp2kFile

\* C6: a toFile call whose path is not a string, names the input file, or has
\* a JPEG 2000 extension the build cannot write, never invokes the engine and
\* leaves fileOut as it was; the error goes to the callback when there is one
\* and is a rejected promise otherwise.
C6_GuardedToFile ==
  \A j \in OutputJobs :
    (jobs[j].op = "toFile" /\ C6_GuardFails(jobs[j].arg)) =>
      /\ CallsOf(j) = {}
      /\ jobs[j].after = jobs[j].before
      /\ IF jobs[j].hasCb
           THEN jobs[j].ret = "this" /\ jobs[j].cb = 1 /\ jobs[j].cbErr
           ELSE jobs[j].ret = "rejected" /\ jobs[j].cb = 0

C6_Witness ==
  \E j \in OutputJobs :
    /\ jobs[j].op = "toFile"
    /\ jobs[j].arg = Str(PDotIn)
    /\ options.input.file = Str(PIn)
    /\ jobs[j].hasCb
    /\ jobs[j].before # Str(EmptyString)


\* the engine calls each completion callback, once (spec section 6)
SpecLive == Spec /\ WF_vars(\E i \in 1..MaxJobs, err \in BOOLEAN : EngineComplete(i, err))

\* C7: on a stream-input instance the engine's metadata operation is invoked
\* only after 'finish' and the flatten step, and a metadata() promise settles
\* once the input has finished, whether metadata() was called before or after
\* 'finish'.
C7_MetadataSettles ==
  /\ [](\A i \in 1..Len(engine) :
          (engine[i].op = "metadata" /\ jobs[engine[i].job].streamIn)
            => engine[i].afterFinish /\ engine[i].input.buffer = Buf(hist.bytes))
  /\ \A j \in 1..MaxJobs :
       (/\ j <= Len(jobs)
        /\ jobs[j].op = "metadata"
        /\ ~jobs[j].hasCb
        /\ jobs[j].streamIn
        /\ writable.finished)
         ~> (j <= Len(jobs) /\ jobs[j].promise \in {"value", "rejected"})

C7_Witness ==
  \E j \in 1..Len(jobs) :
    /\ jobs[j].op = "metadata"
    /\ ~jobs[j].hasCb
    /\ jobs[j].streamIn
    /\ ~jobs[j].preFinish
    /\ hist.written # <<>>
    /\ jobs[j].promise = "value"


-----------------------------------------------------------------------------
(* Claims about the option resolvers *)

\* the Job Options the k-th logged call left behind
OptionsAfter(k) == IF k < Len(hist.log) THEN hist.log[k + 1].pre ELSE options

ForceFalse(a) == isObject(a) /\ Get(a, "force") = Bool(FALSE)

\* the format each codec resolver selects
CodecOf ==
  [jpeg |-> "jpeg", png |-> "png", webp |-> "webp", gif |-> "gif", tiff |-> "tiff",
   heif |-> "heif", avif |-> "heif", jxl |-> "jxl", jp2 |-> "jp2", raw |-> "raw",
   tile |-> "dz"]

FieldOf ==
  [jpeg |-> [quality |-> "jpegQuality", progressive |-> "jpegProgressive",
             chromaSubsampling |-> "jpegChromaSubsampling",
             optimiseCoding |-> "jpegOptimiseCoding",
             optimizeCoding |-> "jpegOptimiseCoding",
             trellisQuantisation |-> "jpegTrellisQuantisation",
             trellisQuantization |-> "jpegTrellisQuantisation",
             overshootDeringing |-> "jpegOvershootDeringing",
             optimiseScans |-> "jpegOptimiseScans", optimizeScans |-> "jpegOptimiseScans",
             quantisationTable |-> "jpegQuantisationTable",
             quantizationTable |-> "jpegQuantisationTable"],
   png |-> [progressive |-> "pngProgressive", compressionLevel |-> "pngCompressionLevel",
            adaptiveFiltering |-> "pngAdaptiveFiltering", palette |-> "pngPalette",
            quality |-> "pngQuality", effort |-> "pngEffort", dither |-> "pngDither",
            colours |-> "pngBitdepth", colors |-> "pngBitdepth"],
   webp |-> [quality |-> "webpQuality", alphaQuality |-> "webpAlphaQuality",
             lossless |-> "webpLossless", nearLossless |-> "webpNearLossless",
             smartSubsample |-> "webpSmartSubsample", smartDeblock |-> "webpSmartDeblock",
             preset |-> "webpPreset", effort |-> "webpEffort", minSize |-> "webpMinSize",
             mixed |-> "webpMixed", loop |-> "loop", delay |-> "delay"],
   gif |-> [reuse |-> "gifReuse", progressive |-> "gifProgressive",
            colours |-> "gifBitdepth", colors |-> "gifBitdepth", effort |-> "gifEffort",
            dither |-> "gifDither", interFrameMaxError |-> "gifInterFrameMaxError",
            interPaletteMaxError |-> "gifInterPaletteMaxError",
            keepDuplicateFrames |-> "gifKeepDuplicateFrames", loop |-> "loop",
            delay |-> "delay"],
   jp2 |-> [quality |-> "jp2Quality", lossless |-> "jp2Lossless",
            tileWidth |-> "jp2TileWidth", tileHeight |-> "jp2TileHeight",
            chromaSubsampling |-> "jp2ChromaSubsampling"],
   tiff |-> [quality |-> "tiffQuality", bitdepth |-> "tiffBitdepth", tile |-> "tiffTile",
             tileWidth |-> "tiffTileWidth", tileHeight |-> "tiffTileHeight",
             miniswhite |-> "tiffMiniswhite", pyramid |-> "tiffPyramid",
             xres |-> "tiffXres", yres |-> "tiffYres", compression |-> "tiffCompression",
             predictor |-> "tiffPredictor", resolutionUnit |-> "tiffResolutionUnit"],
   heif |-> [compression |-> "heifCompression", quality |-> "heifQuality",
             lossless |-> "heifLossless", effort |-> "heifEffort",
             chromaSubsampling |-> "heifChromaSubsampling", bitdepth |-> "heifBitdepth"],
   avif |-> [compression |-> "heifCompression", quality |-> "heifQuality",
             lossless |-> "heifLossless", effort |-> "heifEffort",
             chromaSubsampling |-> "heifChromaSubsampling", bitdepth |-> "heifBitdepth"],
   jxl |-> [quality |-> "jxlDistance", distance |-> "jxlDistance",
            decodingTier |-> "jxlDecodingTier", lossless |-> "jxlLossless",
            effort |-> "jxlEffort", loop |-> "loop", delay |-> "delay"],
   raw |-> [depth |-> "rawDepth"],
   tile |-> [size |-> "tileSize", overlap |-> "tileOverlap", container |-> "tileContainer",
             layout |-> "tileLayout", angle |-> "tileAngle",
             background |-> "tileBackground", depth |-> "tileDepth",
             skipBlanks |-> "tileSkipBlanks", centre |-> "tileCentre",
             center |-> "tileCentre", id |-> "tileId", basename |-> "tileBasename"]]

\* the keys of the argument a that name a field of the resolver op
KeysOf(op, a) ==
  IF isObject(a) THEN {k \in DOMAIN a.v \cap DOMAIN FieldOf[op] : isDefined(a.v[k])} ELSE {}

\* the fields the call op(a) mentions
Mentioned(op, a) == {FieldOf[op][k] : k \in KeysOf(op, a)}

\* the fields the call op(a) writes without their being mentioned
Derived(op, a) ==
  CASE op = "jpeg" ->
         (IF Get(a, "optimiseScans") = Bool(TRUE) \/ Get(a, "optimizeScans") = Bool(TRUE)
            THEN {"jpegProgressive"} ELSE {})
         \cup (IF Get(a, "mozjpeg") = Bool(TRUE)
                 THEN {"jpegTrellisQuantisation", "jpegOvershootDeringing",
                       "jpegOptimiseScans", "jpegProgressive", "jpegQuantisationTable"}
               ELSE {})
    [] op = "png" ->
         IF \E k \in {"quality", "effort", "colours", "colors", "dither"} :
              isDefined(Get(a, k))
           THEN {"pngPalette"} ELSE {}
    [] op = "avif" -> {"heifCompression"}
    [] op = "tile" ->
         {"tileFormat"} \cup (IF Get(a, "layout") = Str("google") THEN {"tileSkipBlanks"}
                              ELSE {})
    [] OTHER -> {}

\* the fields stored as numbers <<n, d>> rather than integers
NumberFields ==
  {"pngDither", "gifEffort", "gifDither", "gifInterFrameMaxError",
   "gifInterPaletteMaxError", "tiffXres", "tiffYres", "jxlDistance"}

\* the value a field holds once the option value v has been stored in it
StoredAs(field, v) ==
  CASE v.t = "number" -> IF field \in NumberFields THEN <<v.n, v.d>> ELSE v.n
    [] OTHER -> v.v

\* the keys whose value is stored as given, by the call op(a) leaving `post`
StoredAsGiven(op, a, post) ==
  {k \in KeysOf(op, a) :
     /\ k \notin {"colours", "colors", "delay", "background"}
     /\ ~(op = "jxl" /\ (k = "quality" \/ isDefined(Get(a, "quality"))))
     /\ ~(op = "png" /\ k \in {"quality", "effort", "dither"} /\ ~post.pngPalette)
     /\ FieldOf[op][k] \notin Derived(op, a)
     /\ \A k2 \in KeysOf(op, a) : FieldOf[op][k2] = FieldOf[op][k] => k2 = k}

\* two successive accepted calls, the later one a codec resolver
Successive(k) ==
  /\ k \in 2..Len(hist.log)
  /\ hist.log[k - 1].err = "" /\ hist.log[k].err = ""
  /\ hist.log[k].op \in DOMAIN FieldOf

\* jpeg called twice with only a valid quality, the two qualities different
JpegTwice(k) ==
  /\ Successive(k)
  /\ hist.log[k - 1].op = "jpeg" /\ hist.log[k].op = "jpeg"
  /\ KeysOf("jpeg", hist.log[k - 1].arg) = {"quality"}
  /\ KeysOf("jpeg", hist.log[k].arg) = {"quality"}
  /\ ~ForceFalse(hist.log[k - 1].arg) /\ ~ForceFalse(hist.log[k].arg)
  /\ hist.log[k - 1].arg.v.quality # hist.log[k].arg.v.quality

\* C9 as stated: after jpeg twice the second quality is stored and formatOut is
\* 'jpeg'; of two successive accepted calls the later one's values are the
\* ones stored, and every field the later call does not mention keeps its
\* earlier value.
C9_UnmentionedFieldsKept ==
  \A k \in 1..Len(hist.log) :
    LET e == hist.log[k]
        post == OptionsAfter(k)
    IN /\ JpegTwice(k) => post.jpegQuality = e.arg.v.quality.n /\ post.formatOut = "jpeg"
       /\ Successive(k) =>
            /\ \A key \in StoredAsGiven(e.op, e.arg, post) :
                 post[FieldOf[e.op][key]] = StoredAs(FieldOf[e.op][key], e.arg.v[key])
            /\ \A f \in DOMAIN e.pre :
                 f \notin Mentioned(e.op, e.arg) \cup {"formatOut"} => post[f] = e.pre[f]

\* C9: after jpeg twice the second quality is stored and formatOut is 'jpeg';
\* of two successive accepted calls the later one's values are the ones
\* stored; every field the later call neither mentions nor derives from what
\* it mentions (progressive under optimiseScans, the mozjpeg defaults, the png
\* palette flag, the av1 compression of avif, the tile format and the google
\* skipBlanks) keeps its earlier value; and whether a call is accepted is
\* settled by its argument and the options it finds, not by later calls.
C9_LastWriteWins ==
  \A k \in 1..Len(hist.log) :
    LET e == hist.log[k]
        post == OptionsAfter(k)
    IN /\ JpegTwice(k) => post.jpegQuality = e.arg.v.quality.n /\ post.formatOut = "jpeg"
       /\ Successive(k) =>
            /\ \A key \in StoredAsGiven(e.op, e.arg, post) :
                 post[FieldOf[e.op][key]] = StoredAs(FieldOf[e.op][key], e.arg.v[key])
            /\ \A f \in DOMAIN e.pre :
                 f \notin Mentioned(e.op, e.arg) \cup Derived(e.op, e.arg) \cup {"formatOut"}
                   => post[f] = e.pre[f]
       /\ e.op \in DOMAIN FieldOf =>
            e.err = CallResolver(e.op, e.pre, e.arg, build).err

C9_Witness ==
  /\ JpegTwice(2)
  /\ hist.log[2].pre.jpegQuality = hist.log[1].arg.v.quality.n
  /\ options.jpegQuality = hist.log[2].arg.v.quality.n

\* the resolver each spelling of a format name or alias stands for
ResolverOfSpelling ==
  [heic |-> "heif", heif |-> "heif", avif |-> "avif", jpeg |-> "jpeg", jpg |-> "jpeg",
   jpe |-> "jpeg", tile |-> "tile", dz |-> "tile", png |-> "png", raw |-> "raw",
   tiff |-> "tiff", tif |-> "tiff", webp |-> "webp", gif |-> "gif", jp2 |-> "jp2",
   jpx |-> "jp2", j2k |-> "jp2", j2c |-> "jp2", jxl |-> "jxl",
   JPEG |-> "jpeg", Jpg |-> "jpeg", PNG |-> "png", Heic |-> "heif", AVIF |-> "avif",
   DZ |-> "tile", Tif |-> "tiff", WebP |-> "webp", J2K |-> "jp2", JXL |-> "jxl"]

\* C10: toFormat with any spelling of a known name or alias leaves the Job
\* Options, or throws the error, that the mapped resolver called with the
\* same options does; with an unknown name it throws the invalid-parameter
\* error for 'format' and leaves the Job Options as they were.
C10_ToFormatIsResolver ==
  \A k \in 1..Len(hist.log) :
    LET e == hist.log[k]
    IN (e.op = "toFormat" /\ isString(e.arg)) =>
         IF e.arg.v \in DOMAIN ResolverOfSpelling
           THEN LET direct == CallResolver(ResolverOfSpelling[e.arg.v], e.pre, e.arg2, build)
                IN OptionsAfter(k) = direct.o /\ e.err = direct.err
         ELSE e.err = "format" /\ OptionsAfter(k) = e.pre

C10_Witness ==
  /\ Len(hist.log) = 2
  /\ hist.log[1].op = "toFormat" /\ hist.log[1].arg = Str("Jpg")
  /\ hist.log[1].arg2 = Obj([quality |-> Integer(50)]) /\ hist.log[1].err = ""
  /\ hist.log[2].op = "toFormat" /\ hist.log[2].arg = Str("BMP")
  /\ hist.log[2].err = "format"
  /\ options.formatOut = "jpeg" /\ options.jpegQuality = 50

-----------------------------------------------------------------------------
(* Claims about format selection followed by output calls *)

\* the first call on the instance was toFormat('webp', { quality: 50 }) and no
\* resolver has been called since
WebpSelected ==
  /\ Len(hist.log) = 1
  /\ hist.log[1].op = "toFormat" /\ hist.log[1].arg = Str("webp")
  /\ hist.log[1].arg2 = Obj([quality |-> Integer(50)])

\* a step in which toFile is called
ToFileStep ==
  /\ Len(jobs') = Len(jobs) + 1
  /\ jobs'[Len(jobs')].op = "toFile"

\* C11: after toFormat('webp', { quality: 50 }) on a fresh instance formatOut is
\* 'webp' and webpQuality is 50, also after any toFile calls that follow; and a
\* toFile call, whatever the extension of its path, changes no field of the
\* Job Options other than fileOut.
C11_ToFileKeepsFormat ==
  /\ [](WebpSelected => options.formatOut = "webp" /\ options.webpQuality = 50)
  /\ [][ToFileStep =>
          /\ \A f \in DOMAIN options \ {"fileOut"} : options'[f] = options[f]
          /\ options'.fileOut \in {options.fileOut, jobs'[Len(jobs')].arg}]_vars

C11_Witness ==
  /\ WebpSelected
  /\ \E j \in 1..Len(jobs) :
       /\ jobs[j].op = "toFile" /\ jobs[j].arg = Str(PXJpg) /\ jobs[j].guard = ""
       /\ jobs[j].before = Str(EmptyString)
  /\ options.fileOut = Str(PXJpg)
  /\ options.formatOut = "webp" /\ options.webpQuality = 50
  /\ \E i \in 1..Len(engine) : engine[i].done /\ engine[i].fileOut = Str(PXJpg)

-----------------------------------------------------------------------------
(* Claims about bitdepthFromColourCount *)

\* the colour count of an accepted png({ colours }) or gif({ colors }) call
ColoursOf(e) == IF e.op = "png" THEN e.arg.v.colours.n ELSE e.arg.v.colors.n

ColourCalls ==
  {k \in 1..Len(hist.log) :
     /\ hist.log[k].op \in {"png", "gif"} /\ hist.log[k].err = ""
     /\ isObject(hist.log[k].arg)
     /\ DOMAIN hist.log[k].arg.v \in {{"colours"}, {"colors"}}
     /\ ColoursOf(hist.log[k]) \in 2..256}

\* the bit depth stored by the k-th logged call
BitdepthAfter(k) ==
  IF hist.log[k].op = "png" THEN OptionsAfter(k).pngBitdepth ELSE OptionsAfter(k).gifBitdepth

\* the number of bits needed to tell n colours apart
BitsFor(n) == CHOOSE b \in 1..8 : 2^b >= n /\ 2^(b - 1) < n

\* C12 as stated: for n in 2..256 bitdepthFromColourCount(n) is n rounded up to
\* a power of two: 2 for 2, 4 for 3, 32 for 17, 256 for 256.
C12_PowerOfTwoCeiling ==
  \A k \in ColourCalls :
    LET n == ColoursOf(hist.log[k])
    IN /\ BitdepthAfter(k) \in {2^b : b \in 1..8}
       /\ BitdepthAfter(k) >= n /\ BitdepthAfter(k) < 2 * n

\* C12: for n in 2..256 bitdepthFromColourCount(n) is a bit depth, one of 1, 2,
\* 4 and 8: the number of bits needed for n colours rounded down to a power
\* of two (1 for 2, 2 for 3, 4 for 17, 8 for 256).
C12_BitDepth ==
  \A k \in ColourCalls :
    LET n == ColoursOf(hist.log[k])
        d == BitdepthAfter(k)
    IN /\ d \in {1, 2, 4, 8}
       /\ d <= BitsFor(n) /\ BitsFor(n) < 2 * d
       /\ (n = 2 => d = 1) /\ (n = 3 => d = 2) /\ (n = 17 => d = 4) /\ (n = 256 => d = 8)

C12_Witness ==
  /\ Len(hist.log) = 1 /\ 1 \in ColourCalls
  /\ hist.log[1].op = "png" /\ ColoursOf(hist.log[1]) = 17
  /\ options.pngBitdepth = 4

-----------------------------------------------------------------------------
(* Claims about the palette mode of png *)

\* the accepted png calls in the log
PngCalls == {k \in 1..Len(hist.log) : hist.log[k].op = "png" /\ hist.log[k].err = ""}

\* the call defines one of the options that only palette mode uses
PaletteImplied(a) ==
  \E key \in {"quality", "effort", "colours", "colors", "dither"} : isDefined(Get(a, key))

\* C13 as stated: png({ colours: 16 }) on an instance without palette mode
\* turns palette mode on and stores a bit depth of 16.
C13_SixteenColoursDepth16 ==
  \A k \in PngCalls :
    (hist.log[k].arg = Obj([colours |-> Integer(16)]) /\ ~hist.log[k].pre.pngPalette)
      => OptionsAfter(k).pngPalette /\ OptionsAfter(k).pngBitdepth = 16

\* C13: png({ colours: 16 }) on an instance without palette mode turns palette
\* mode on and stores a bit depth of 4; an accepted png call that defines any
\* of quality, effort, colours, colors or dither and no palette turns palette
\* mode on, and one that defines palette stores the given boolean.
C13_PaletteMode ==
  \A k \in PngCalls :
    LET a == hist.log[k].arg
        post == OptionsAfter(k)
    IN /\ (a = Obj([colours |-> Integer(16)]) /\ ~hist.log[k].pre.pngPalette)
            => post.pngPalette /\ post.pngBitdepth = 4
       /\ (PaletteImplied(a) /\ ~isDefined(Get(a, "palette"))) => post.pngPalette
       /\ isDefined(Get(a, "palette")) => post.pngPalette = Get(a, "palette").v

C13_Witness ==
  /\ Len(hist.log) = 2
  /\ hist.log[1].op = "png" /\ hist.log[1].arg = Obj([palette |-> Bool(FALSE)])
  /\ hist.log[2].op = "png" /\ hist.log[2].arg = Obj([colours |-> Integer(16)])
  /\ hist.log[2].err = "" /\ ~hist.log[2].pre.pngPalette
  /\ options.pngPalette /\ options.pngBitdepth = 4

-----------------------------------------------------------------------------
(* Claims about the integer options with a range *)

\* the ranged options the k-th logged call passes
RangedIn(k) ==
  {row \in RangeOptions :
     /\ row.op = hist.log[k].op
     /\ isObject(hist.log[k].arg)
     /\ row.key \in DOMAIN hist.log[k].arg.v}

PaletteOff(e) == e.op = "png" /\ Get(e.arg, "palette") = Bool(FALSE)

\* the tiles cannot take the output format selected before the call
TileFormatRefused(e) ==
  e.op = "tile" /\ e.pre.formatOut \notin {"input", "jpeg", "png", "webp"}

-----------------------------------------------------------------------------
(* Claims about the two spellings of an option *)

\* the key of the other spelling of the pair
OtherSpelling(pair, key) == IF key = pair.british THEN pair.american ELSE pair.british

\* the alias pairs whose one spelling is the only key of the k-th logged call
SpelledIn(k) ==
  {pair \in AliasPairs :
     /\ pair.op = hist.log[k].op
     /\ isObject(hist.log[k].arg)
     /\ DOMAIN hist.log[k].arg.v \in {{pair.british}, {pair.american}}}

\* C15: for every alias pair and every value, right or wrong in type, the
\* resolver called with the one spelling alone set to the value has the same
\* outcome as the resolver called on the same Job Options with the other
\* spelling alone set to it: the same resulting Job Options, or an error in
\* both cases.
C15_SpellingsAgree ==
  \A k \in 1..Len(hist.log) : \A pair \in SpelledIn(k) :
    LET e == hist.log[k]
        key == CHOOSE x \in DOMAIN e.arg.v : TRUE
        other == CallResolver(e.op, e.pre, OneOption(OtherSpelling(pair, key), e.arg.v[key]), build)
    IN IF e.err = "" THEN other.err = "" /\ other.o = OptionsAfter(k)
       ELSE other.err # ""

-----------------------------------------------------------------------------
(* Claims about the retention mask *)

\* the bit of the retention mask a keep operation sets
KeepBit(op) ==
  CASE op = "keepExif" -> 0
    [] op = "keepXmp" -> 1
    [] op = "keepIccProfile" -> 3

\* C16: keepExif sets exactly bit 0 of the retention mask, keepXmp exactly
\* bit 1 and keepIccProfile exactly bit 3, each leaving the other four bits
\* and every other field of the Job Options as they were; keepMetadata sets
\* the mask to all five bits, 31.
C16_KeepSetsOneBit ==
  \A k \in 1..Len(hist.log) :
    LET e == hist.log[k]
        after == OptionsAfter(k)
    IN /\ e.op \in {"keepExif", "keepXmp", "keepIccProfile"} =>
            /\ e.err = ""
            /\ \A i \in 0..4 :
                 Bit(after.keepMetadata, i) = IF i = KeepBit(e.op) THEN 1
                                              ELSE Bit(e.pre.keepMetadata, i)
            /\ after.keepMetadata \in 0..31
            /\ \A f \in DOMAIN after \ {"keepMetadata"} : after[f] = e.pre[f]
       /\ e.op = "keepMetadata" => e.err = "" /\ after.keepMetadata = 31

\* each of the three keep operations has set its bit on a mask that had its
\* own bit clear, the last two on a mask with other bits set
C16_Witness ==
  /\ Len(hist.log) = 3
  /\ hist.log[1].op = "keepIccProfile" /\ hist.log[1].pre.keepMetadata = 0
  /\ hist.log[2].op = "keepXmp" /\ hist.log[2].pre.keepMetadata = 8
  /\ hist.log[3].op = "keepExif" /\ hist.log[3].pre.keepMetadata = 10
  /\ options.keepMetadata = 11

\* the bit of the retention mask of the metadata kind a with operation sets
KindBit(op) ==
  CASE op \in {"withExif", "withExifMerge"} -> 0
    [] op = "withXmp" -> 1
    [] op = "withIccProfile" -> 3

WithOps == {"withExif", "withExifMerge", "withXmp", "withIccProfile"}

\* C17 as stated: after every successful withExif, withExifMerge, withXmp or
\* withIccProfile call, whatever its accepted arguments, the bit of that
\* metadata kind is set in the retention mask.
C17_WithAlwaysKeeps ==
  \A k \in 1..Len(hist.log) :
    LET e == hist.log[k]
    IN e.op \in WithOps /\ e.err = "" =>
         Bit(OptionsAfter(k).keepMetadata, KindBit(e.op)) = 1

\* the call detaches the profile: withIccProfile(icc, { attach: false })
Detached(e) == e.op = "withIccProfile" /\ Get(e.arg2, "attach") = Bool(FALSE)

\* C17: after every successful withExif, withExifMerge, withXmp or
\* withIccProfile call the bit of that metadata kind is set in the retention
\* mask, except after withIccProfile with attach: false, which leaves the
\* ICC bit clear; the other four bits are as before the call.
C17_WithKeepsUnlessDetached ==
  \A k \in 1..Len(hist.log) :
    LET e == hist.log[k]
        after == OptionsAfter(k)
    IN e.op \in WithOps /\ e.err = "" =>
         \A i \in 0..4 :
           Bit(after.keepMetadata, i) =
             IF i = KindBit(e.op) THEN (IF Detached(e) THEN 0 ELSE 1)
             ELSE Bit(e.pre.keepMetadata, i)

\* keepMetadata, then a profile set with attach: false, then one with attach: true
C17_Witness ==
  /\ Len(hist.log) = 3
  /\ hist.log[1].op = "keepMetadata"
  /\ hist.log[2].op = "withIccProfile" /\ Detached(hist.log[2]) /\ hist.log[2].err = ""
  /\ hist.log[3].op = "withIccProfile" /\ hist.log[3].arg2 = Obj([attach |-> Bool(TRUE)])
  /\ hist.log[3].err = ""
  /\ hist.log[3].pre.keepMetadata = 23
  /\ options.keepMetadata = 31

-----------------------------------------------------------------------------
(* Claims about withExif and withExifMerge *)

ExifOps == {"withExif", "withExifMerge"}

\* an object of IFD groups that are objects of strings
CleanExif(exif) ==
  /\ isObject(exif)
  /\ \A i \in 1..Len(exif.e) :
       /\ isObject(exif.e[i].v)
       /\ \A j \in 1..Len(exif.e[i].v.e) : isString(exif.e[i].v.e[j].v)

\* the positions <<group, entry>> of a clean argument, and the key and value at one
ExifPositions(exif) ==
  {p \in (1..Len(exif.e)) \X (1..2) : p[2] <= Len(exif.e[p[1]].v.e)}

ExifKeyAt(exif, p) ==
  "exif-" \o toLowerCase(exif.e[p[1]].k) \o "-" \o exif.e[p[1]].v.e[p[2]].k

ExifValueAt(exif, p) == exif.e[p[1]].v.e[p[2]].v.v

\* position p comes after position q in the order of Object.entries
ExifLater(p, q) == p[1] > q[1] \/ (p[1] = q[1] /\ p[2] > q[2])

\* the logged exif calls that succeeded
ExifSuccesses == {k \in 1..Len(hist.log) : hist.log[k].op \in ExifOps /\ hist.log[k].err = ""}

\* C18: withExif and withExifMerge accept the same arguments and record the
\* same flattened 'exif-<ifd lower-cased>-<key>' entries; after a successful
\* withExif the merge flag is false and after a successful withExifMerge it is
\* true, so that the flag is determined by the last successful call of the
\* two (true before any); a non-object argument, a non-object IFD group or a
\* non-string value raises the invalid-parameter error and leaves the flag.
C18_ExifEntriesAndMergeFlag ==
  /\ \A k \in 1..Len(hist.log) :
       LET e == hist.log[k]
           after == OptionsAfter(k)
           twin == IF e.op = "withExif" THEN withExifMerge(e.pre, e.arg)
                   ELSE withExif(e.pre, e.arg)
       IN e.op \in ExifOps =>
            /\ (e.err = "") = CleanExif(e.arg)
            /\ twin.err = e.err
            /\ twin.o.withExif = after.withExif
            /\ e.err # "" => after.withExifMerge = e.pre.withExifMerge
            /\ e.err = "" =>
                 /\ after.withExifMerge = (e.op = "withExifMerge")
                 /\ DOMAIN after.withExif =
                      DOMAIN e.pre.withExif \cup
                        {ExifKeyAt(e.arg, p) : p \in ExifPositions(e.arg)}
                 /\ \A p \in ExifPositions(e.arg) :
                      (\A q \in ExifPositions(e.arg) :
                         ExifKeyAt(e.arg, q) = ExifKeyAt(e.arg, p) => ~ExifLater(q, p))
                      => after.withExif[ExifKeyAt(e.arg, p)] = ExifValueAt(e.arg, p)
                 /\ \A key \in DOMAIN e.pre.withExif :
                      key \notin {ExifKeyAt(e.arg, p) : p \in ExifPositions(e.arg)}
                      => after.withExif[key] = e.pre.withExif[key]
  /\ options.withExifMerge =
       IF ExifSuccesses = {} THEN TRUE
       ELSE hist.log[CHOOSE k \in ExifSuccesses : \A j \in ExifSuccesses : j <= k].op
              = "withExifMerge"

\* a merge, then a replacement that overwrites a key through a lower-cased
\* IFD name, then a merge that throws on its second group
C18_Witness ==
  /\ Len(hist.log) = 3
  /\ hist.log[1].op = "withExifMerge" /\ hist.log[1].err = ""
  /\ hist.log[1].arg = Entries(<<Entry("IFD0", Entries(<<Entry("Copyright", Str("a"))>>))>>)
  /\ hist.log[2].op = "withExif" /\ hist.log[2].err = ""
  /\ hist.log[2].arg = Entries(<<Entry("ifd0", Entries(<<Entry("Copyright", Str("d"))>>))>>)
  /\ hist.log[3].op = "withExifMerge" /\ hist.log[3].err = "IFD2"
  /\ options.withExif = [key \in {"exif-ifd0-Copyright", "exif-ifd0-Artist"} |->
                           IF key = "exif-ifd0-Artist" THEN "f" ELSE "d"]
  /\ options.withExifMerge = FALSE

-----------------------------------------------------------------------------
(* Claims about resolvers called without options, and about heif and avif *)

UndefinedResolvers ==
  {"jpeg", "png", "webp", "gif", "tiff", "heif", "jxl", "jp2", "raw", "tile"}

\* the call succeeded and changed the selected output format only
OnlySelects(k) ==
  /\ hist.log[k].err = ""
  /\ OptionsAfter(k) = [hist.log[k].pre EXCEPT !.formatOut = CodecOf[hist.log[k].op]]

\* the call threw and changed nothing
ThrowsUnchanged(k, name) ==
  hist.log[k].err = name /\ OptionsAfter(k) = hist.log[k].pre

\* C19 as stated: every codec resolver called with undefined options, in any
\* reachable state, succeeds and changes nothing in the Job Options except the
\* selected output format.
C19_UndefinedAlwaysSelects ==
  \A k \in 1..Len(hist.log) :
    (hist.log[k].op \in UndefinedResolvers /\ hist.log[k].arg = Undefined) => OnlySelects(k)

\* C19: jpeg, png, webp, gif, tiff, jxl and raw called with undefined options
\* succeed in any reachable state and change nothing in the Job Options except
\* the selected output format; so does jp2 on a build that writes JPEG 2000,
\* while on other builds it throws and changes nothing; heif throws for
\* 'options' and changes nothing; tile throws for 'format' and changes nothing
\* when the format selected before is none of input, jpeg, png, webp, and
\* otherwise selects 'dz' and, for jpeg, png and webp, copies the format
\* selected before into tileFormat.
C19_UndefinedOptions ==
  \A k \in 1..Len(hist.log) :
    LET e == hist.log[k]
    IN (e.op \in UndefinedResolvers /\ e.arg = Undefined) =>
         CASE e.op = "heif" -> ThrowsUnchanged(k, "options")
           [] e.op = "jp2" -> IF build.jp2kBuffer THEN OnlySelects(k)
                              ELSE ThrowsUnchanged(k, "errJp2Save")
           [] e.op = "tile" ->
                IF e.pre.formatOut \in {"jpeg", "png", "webp"}
                  THEN /\ e.err = ""
                       /\ OptionsAfter(k) = [e.pre EXCEPT !.formatOut = "dz",
                                                          !.tileFormat = e.pre.formatOut]
                ELSE IF e.pre.formatOut = "input" THEN OnlySelects(k)
                ELSE ThrowsUnchanged(k, "format")
           [] OTHER -> OnlySelects(k)

\* png() and then tile(), both without options
C19_Witness ==
  /\ Len(hist.log) = 2
  /\ hist.log[1].op = "png" /\ hist.log[1].arg = Undefined /\ hist.log[1].err = ""
  /\ hist.log[2].op = "tile" /\ hist.log[2].arg = Undefined /\ hist.log[2].err = ""
  /\ hist.log[2].pre.formatOut = "png"
  /\ options.formatOut = "dz" /\ options.tileFormat = "png"

\* the options heif and avif share are absent or valid on this build
HeifOptionsValid(a) ==
  LET quality == Get(a, "quality")
      lossless == Get(a, "lossless")
      effort == Get(a, "effort")
      chromaSubsampling == Get(a, "chromaSubsampling")
      bitdepth == Get(a, "bitdepth")
  IN /\ isDefined(quality) => isInteger(quality) /\ quality.n \in 1..100
     /\ isDefined(lossless) => isBool(lossless)
     /\ isDefined(effort) => isInteger(effort) /\ effort.n \in 0..9
     /\ isDefined(chromaSubsampling) => chromaSubsampling \in {Str("4:2:0"), Str("4:4:4")}
     /\ isDefined(bitdepth) =>
          bitdepth = Integer(8) \/ (bitdepth \in {Integer(10), Integer(12)} /\ ~build.heif)

\* options is an object whose compression is 'av1' or 'hevc'
HeifCompressionGiven(a) == isObject(a) /\ Get(a, "compression") \in {Str("av1"), Str("hevc")}

\* heif throws and leaves formatOut unless compression is 'av1' or 'hevc'
HeifNeedsCompression(k) ==
  LET e == hist.log[k]
  IN e.op = "heif" =>
       IF HeifCompressionGiven(e.arg)
         THEN HeifOptionsValid(e.arg) =>
                e.err = "" /\ OptionsAfter(k).heifCompression = Get(e.arg, "compression").v
       ELSE e.err # "" /\ OptionsAfter(k).formatOut = e.pre.formatOut

\* a bitdepth of 10 or 12 is stored on a build that is not prebuilt and
\* rejected on a prebuilt one; a bitdepth outside 8, 10, 12 is rejected
HeifBitdepth(k) ==
  LET e == hist.log[k]
      bitdepth == Get(e.arg, "bitdepth")
      others == [e.arg EXCEPT !.v = [x \in DOMAIN e.arg.v \ {"bitdepth"} |-> e.arg.v[x]]]
  IN (/\ e.op \in {"heif", "avif"}
      /\ isDefined(bitdepth)
      /\ HeifOptionsValid(others)
      /\ e.op = "heif" => HeifCompressionGiven(e.arg)) =>
       IF bitdepth \in {Integer(10), Integer(12)} /\ ~build.heif
         THEN e.err = "" /\ OptionsAfter(k).heifBitdepth = bitdepth.n
       ELSE IF bitdepth = Integer(8)
         THEN e.err = "" /\ OptionsAfter(k).heifBitdepth = 8
       ELSE e.err # "" /\ OptionsAfter(k).heifBitdepth = e.pre.heifBitdepth

-----------------------------------------------------------------------------
(* Claims about _createInputDescriptor *)

\* the logged calls of _createInputDescriptor
InputCalls == {k \in 1..Len(hist.log) : hist.log[k].op = "createInputDescriptor"}

\* a valid input that is not an array: a path, a non-empty Buffer or typed
\* array, or an object of valid create options
ValidElement(x) ==
  \/ isString(x)
  \/ isBuffer(x) /\ Len(x.v) > 0
  \/ isTypedArray(x) /\ Len(x.v) > 0
  \/ x = CreateOptions

\* the input options are absent or accepted beside a path
OptionsAccepted(io) ==
  createInputDescriptorFrom(ImgA, io, Undefined, FALSE, Undefined).err = ""

\* the descriptor is the one of the element: the same path or the same bytes
DescribesElement(d, x) ==
  IF isString(x) THEN "file" \in DOMAIN d /\ d.file = x
  ELSE IF isBuffer(x) THEN "buffer" \in DOMAIN d /\ d.buffer = x
  ELSE IF isTypedArray(x) THEN "buffer" \in DOMAIN d /\ d.buffer = Buf(x.v)
  ELSE "createWidth" \in DOMAIN d /\ "file" \notin DOMAIN d /\ "buffer" \notin DOMAIN d

\* C21: an array input of fewer than 2 elements fails; on an instance without
\* join state an array of n >= 2 valid non-array inputs succeeds and records
\* exactly n nested descriptors, in the order of the elements; on an instance
\* with join state every array input of length >= 2 fails with the
\* recursive-join error, as does an array with such an array as an element,
\* and the recorded nested descriptors are as before the call.
C21_JoinArrays ==
  \A k \in InputCalls :
    LET e == hist.log[k]
        after == OptionsAfter(k)
        n == Len(e.arg.v)
    IN isArray(e.arg) =>
         /\ n < 2 => /\ e.err = "Expected at least two images to join"
                     /\ after.join = e.pre.join /\ after.joining = e.pre.joining
         /\ (n >= 2 /\ e.pre.joining) =>
              e.err = "Recursive join is unsupported" /\ after.join = e.pre.join
         /\ (n >= 2 /\ ~e.pre.joining /\ OptionsAccepted(e.arg2)
             /\ \A i \in 1..n : ValidElement(e.arg.v[i])) =>
              /\ e.err = ""
              /\ after.joining
              /\ isArray(after.join) /\ Len(after.join.v) = n
              /\ \A i \in 1..n : DescribesElement(after.join.v[i], e.arg.v[i])
         /\ (n >= 2 /\ \E i \in 1..n : isArray(e.arg.v[i]) /\ Len(e.arg.v[i].v) >= 2
                                        /\ \A j \in 1..(i - 1) : ValidElement(e.arg.v[j])) =>
              e.err = "Recursive join is unsupported" /\ after.join = e.pre.join

\* three images joined, then a second join refused
C21_Witness ==
  /\ Len(hist.log) = 2
  /\ hist.log[1].op = "createInputDescriptor" /\ hist.log[1].arg = Arr(<<ImgA, ImgB, ImgC>>)
  /\ hist.log[1].err = ""
  /\ hist.log[2].op = "createInputDescriptor" /\ hist.log[2].arg = Arr(<<ImgB, ImgA>>)
  /\ hist.log[2].err = "Recursive join is unsupported"
  /\ Len(options.join.v) = 3
  /\ options.join.v[1].file = ImgA /\ options.join.v[2].buffer = ImgB

\* the source kinds populated by the k-th logged call: on the descriptor it
\* returned, or, for a join, on the instance
SourceKinds(k) ==
  LET e == hist.log[k]
      has(f) == f \in DOMAIN e.d
  IN {x \in {"file"} : has("file")}
     \cup {x \in {"buffer"} : has("buffer") /\ isBuffer(e.d.buffer)}
     \cup {x \in {"stream"} : has("buffer") /\ isArray(e.d.buffer)}
     \cup {x \in {"create"} : has("createWidth")}
     \cup {x \in {"text"} : has("textValue")}
     \cup {x \in {"join"} : isArray(e.arg)}

\* C22 as stated: every descriptor returned by _createInputDescriptor, for any
\* accepted combination of input and input options, has exactly one source
\* kind populated among file path, buffer, pending-stream chunk list, create
\* fields, text fields and join.
C22_ExactlyOneSourceKind ==
  \A k \in InputCalls : hist.log[k].err = "" => Cardinality(SourceKinds(k)) = 1

\* the options the call applied: its input when that is a plain object given
\* without options, its options otherwise
AppliedOptions(e) == IF isPlainObject(e.arg) /\ ~isDefined(e.arg2) THEN e.arg ELSE e.arg2

\* C22: every descriptor returned by _createInputDescriptor has at most one of
\* file path, buffer, chunk list and join, and never a buffer or chunk list
\* together with create or text fields; it has exactly one source kind unless
\* create or text options came with a path or an array (both are populated),
\* create and text options came together (both are populated), or the input
\* was a plain object naming no stream parameter, create or text (none is).
C22_SourceKinds ==
  \A k \in InputCalls :
    LET e == hist.log[k]
        kinds == SourceKinds(k)
        synthetic == {x \in {"create", "text"} : isDefined(Get(AppliedOptions(e), x))}
    IN e.err = "" =>
         /\ Cardinality(kinds \cap {"file", "buffer", "stream", "join"}) <= 1
         /\ kinds \cap {"buffer", "stream"} # {} => kinds \cap {"create", "text"} = {}
         /\ kinds \cap {"create", "text"} = synthetic
         /\ Cardinality(kinds) = 1 <=>
              ~ \/ synthetic # {} /\ (isString(e.arg) \/ isArray(e.arg))
                \/ synthetic = {"create", "text"}
                \/ /\ isPlainObject(e.arg) /\ ~isDefined(e.arg2)
                   /\ ~inputOptionsFromObject(e.arg) /\ synthetic = {}

\* a Buffer with create options gives create fields alone, then a path with
\* create options gives a path and create fields
C22_Witness ==
  /\ Len(hist.log) = 2
  /\ hist.log[1].op = "createInputDescriptor" /\ hist.log[1].arg = ImgB
  /\ hist.log[1].arg2 = CreateOptions /\ hist.log[1].err = ""
  /\ SourceKinds(1) = {"create"}
  /\ hist.log[2].op = "createInputDescriptor" /\ hist.log[2].arg = ImgA
  /\ hist.log[2].arg2 = CreateOptions /\ hist.log[2].err = ""
  /\ SourceKinds(2) = {"file", "create"}

-----------------------------------------------------------------------------
(* Claims about raw pixel input *)

\* C23: for w > 0, h > 0 and c in 1..4, the descriptor of a Uint16Array of
\* w*h*c elements with raw options {width: w, height: h, channels: c} has
\* rawWidth w, rawHeight h, rawChannels c, rawDepth 'ushort' and a buffer of
\* 2*w*h*c bytes, the two bytes of each element in turn; raw options with
\* width <= 0, height <= 0 or channels outside 1..4 fail; a raw pageHeight is
\* accepted, and stored, only when it is a positive integer not above height
\* that divides height.
C23_RawUint16 ==
  \A k \in InputCalls :
    LET e == hist.log[k]
        rawOptions == Get(e.arg2, "raw")
        w == Get(rawOptions, "width").n
        h == Get(rawOptions, "height").n
        c == Get(rawOptions, "channels").n
        ph == Get(rawOptions, "pageHeight")
        sized == w > 0 /\ h > 0 /\ c \in 1..4
        paged == ~isDefined(ph) \/ (ph.n > 0 /\ ph.n <= h /\ h % ph.n = 0)
    IN (isTypedArray(e.arg) /\ e.arg.ctor = "Uint16Array" /\ isDefined(rawOptions)) =>
         IF sized /\ paged
           THEN /\ e.err = ""
                /\ e.d.rawWidth = w /\ e.d.rawHeight = h /\ e.d.rawChannels = c
                /\ e.d.rawDepth = "ushort"
                /\ e.d.rawPageHeight = IF isDefined(ph) THEN ph.n ELSE 0
                /\ Len(e.arg.v) = w * h * c
                /\ Len(e.d.buffer.v) = 2 * w * h * c
                /\ \A i \in 1..Len(e.arg.v) :
                     e.d.buffer.v[2 * i - 1] + 256 * e.d.buffer.v[2 * i] = e.arg.v[i]
         ELSE e.err # ""

\* 2 x 3 pixels of 4 channels in pages of 3 rows: 48 bytes
C23_Witness ==
  /\ Len(hist.log) = 1
  /\ hist.log[1].op = "createInputDescriptor"
  /\ hist.log[1].arg = Uint16Pixels(24)
  /\ hist.log[1].arg2 = RawOptions(2, 3, 4, 3)
  /\ hist.log[1].err = ""
  /\ Len(hist.log[1].d.buffer.v) = 48
  /\ hist.log[1].d.rawDepth = "ushort" /\ hist.log[1].d.rawPageHeight = 3

-----------------------------------------------------------------------------
(* Claims about the tile size and overlap *)

\* C24: in every state reachable by tile calls interleaved with other resolver
\* calls, tileOverlap <= tileSize, with tileSize in 1..8192 and tileOverlap in
\* 0..8192.
C24_OverlapWithinSize ==
  /\ options.tileSize \in 1..8192
  /\ options.tileOverlap \in 0..8192
  /\ options.tileOverlap <= options.tileSize

-----------------------------------------------------------------------------
(* Claims about the chunk list of a stream-input instance *)

\* the instance was built without input: its payload started as a chunk list
StreamInstance == last.op = "new" /\ last.arg = Undefined

\* C25: on a stream-input instance, whatever metadata, stats, toBuffer, toFile
\* and pull triggers are made, the chunk list is concatenated at most once and
\* only after 'finish'; while the payload is a list it holds the accepted
\* chunks in write order, and once it is flattened it is the concatenation of
\* those chunks; a write that meets a payload that is not a list reports
\* 'Unexpected data on Writable Stream' through the write callback and leaves
\* the Job Options as they are.
C25_FlattenOnce ==
  /\ StreamInstance =>
       /\ hist.flattens <= 1
       /\ hist.flattens = 1 => writable.finished
       /\ IF isStreamInput(options)
            THEN hist.flattens = 0 /\ options.input.buffer.v = hist.written
          ELSE /\ hist.flattens = 1
               /\ options.input.buffer = Buf(hist.bytes)
               /\ hist.bytes = BufferConcat(hist.written)
  /\ ~isStreamInput(options) =>
       \A chunk \in Chunks :
         /\ write(Machine, chunk).guard = "Unexpected data on Writable Stream"
         /\ write(Machine, chunk).o = options
         /\ write(Machine, chunk).eng = engine

\* two chunks written, two jobs triggered, one concatenation
C25_Witness ==
  /\ StreamInstance
  /\ Len(hist.written) = 2
  /\ hist.flattens = 1
  /\ Len(jobs) = 2 /\ jobs[1].streamIn /\ jobs[1].preFinish /\ ~jobs[2].preFinish
  /\ Len(engine) = 2
  /\ options.input.buffer = Buf(hist.bytes)

-----------------------------------------------------------------------------
(* Claims about deferred jobs of a stream-input instance *)

\* the outcome of job j was delivered in the mode of its call
Delivered(j) ==
  /\ \E i \in CallsOf(j) : engine[i].done
  /\ CASE jobs[j].mode = "callback" -> jobs[j].cb >= 1
       [] jobs[j].mode = "promise" -> jobs[j].promise \notin {"pending", "none"}
       [] OTHER -> readable.eof

\* C26: on a stream-input instance every job triggered by toBuffer, toFile or
\* the first pull eventually invokes the engine and delivers its outcome in
\* its delivery mode once the input has finished and the engine completes,
\* whether it was triggered before or after 'finish' and whether or not a
\* chunk was written.
C26_EveryJobDelivers ==
  \A j \in 1..MaxJobs :
    (/\ j <= Len(jobs)
     /\ jobs[j].op \in {"toBuffer", "toFile", "read"}
     /\ jobs[j].streamIn
     /\ jobs[j].guard = ""
     /\ writable.finished)
      ~> (j <= Len(jobs) /\ Delivered(j))

\* C27: when several output jobs are triggered on a stream-input instance
\* before the input finishes, each deferred engine invocation is handed the
\* fileOut and resolveWithObject that its own triggering call left in the Job
\* Options, not those written by a later call.
C27_OwnOptionsAtInvocation ==
  \A i \in PipelineCalls :
    LET j == engine[i].job
    IN (jobs[j].op \in {"toBuffer", "toFile"} /\ jobs[j].streamIn /\ jobs[j].preFinish) =>
         /\ engine[i].fileOut = jobs[j].after
         /\ engine[i].resolveWithObject = jobs[j].rwoAfter

\* C29: a promise returned by toFile resolves with the engine's result as it
\* is, never wrapped in {data, info}, in every state of the instance, also
\* after a toBuffer({resolveWithObject: true}) on the same instance.
C29_ToFileUnwrapped ==
  \A j \in OutputJobs : \A i \in CallsOf(j) :
    (jobs[j].op = "toFile" /\ jobs[j].mode = "promise" /\ engine[i].done /\ ~engine[i].err)
      => jobs[j].promise = "data"

-----------------------------------------------------------------------------
(* Claims about calls that throw, and about tile called again *)

ThrowingOps ==
  {"jpeg", "png", "webp", "gif", "tiff", "heif", "jxl", "tile", "withExif", "withMetadata",
   "timeout"}

\* the latest call was one of the validating operations and threw
Threw == last.ret = "throw" /\ last.op \in ThrowingOps

\* the fields whose value the latest call changed
Changed == {f \in DOMAIN options : options[f] # last.pre[f]}

\* the fields the call op(a) may write: those its options name or derive
WritableBy(op, a) ==
  CASE op = "withExif" -> {"withExif"}
    [] op = "withMetadata" ->
         {"keepMetadata", "withIccProfile", "withMetadataOrientation",
          "withMetadataDensity", "withExif"}
    [] op = "timeout" -> {}
    [] OTHER -> Mentioned(op, a) \cup Derived(op, a)

\* C28 as stated: a resolver or metadata call that raises a validation error
\* leaves the Job Options exactly as they were before the call.
C28_ThrowLeavesOptions == Threw => options = last.pre

\* C28: a call that raises a validation error leaves formatOut unchanged and
\* writes no field other than those its own options name or derive; jpeg,
\* webp, gif, tiff, heif, jxl and timeout leave the record exactly as it was
\* when the call names at most one option; withMetadata has by then set every
\* bit of the retention mask.
C28_ThrowWritesOwnFields ==
  Threw =>
    /\ options.formatOut = last.pre.formatOut
    /\ Changed \subseteq WritableBy(last.op, last.arg)
    /\ last.op = "withMetadata" => options.keepMetadata = 31
    /\ last.op = "timeout" => options = last.pre
    /\ (/\ last.op \in {"jpeg", "webp", "gif", "tiff", "heif", "jxl"}
        /\ Cardinality(KeysOf(last.op, last.arg)) <= 1) => options = last.pre

\* a jpeg call threw for progressive after it had stored the quality, and a
\* withMetadata call threw for orientation after it had set the mask
C28_Witness ==
  /\ Threw
  /\ \/ /\ last.op = "jpeg" /\ last.err = "progressive"
        /\ options.jpegQuality = 50 /\ last.pre.jpegQuality # 50
     \/ /\ last.op = "withMetadata" /\ last.err = "orientation"
        /\ options.keepMetadata = 31 /\ last.pre.keepMetadata # 31

\* the latest call is a tile call that immediately follows an accepted tile call
TileAfterTile ==
  /\ Len(hist.log) >= 2
  /\ last = hist.log[Len(hist.log)]
  /\ last.op = "tile"
  /\ hist.log[Len(hist.log) - 1].op = "tile"
  /\ hist.log[Len(hist.log) - 1].ret = "this"

\* the options of the latest tile call are accepted when no format was selected
ValidTileOptions == tile([last.pre EXCEPT !.formatOut = "input"], last.arg).err = ""

\* C30 as stated: after a successful tile call an immediately following tile
\* call with valid options succeeds, leaves formatOut = 'dz' and keeps
\* tileFormat as the first call recorded it.
C30_TileRepeatable ==
  (TileAfterTile /\ ValidTileOptions) =>
    /\ last.ret = "this"
    /\ options.formatOut = "dz"
    /\ options.tileFormat = last.pre.tileFormat

\* C30: after a successful tile call an immediately following tile call
\* throws, for 'format' when its options are valid; formatOut stays 'dz' and
\* tileFormat stays as the first call recorded it.
C30_SecondTileThrows ==
  TileAfterTile =>
    /\ last.pre.formatOut = "dz"
    /\ last.ret = "throw"
    /\ ValidTileOptions => last.err = "format"
    /\ options.formatOut = "dz"
    /\ options.tileFormat = last.pre.tileFormat

\* tile({size: 512}) after an accepted tile call threw for 'format' and left
\* the new size behind
C30_Witness ==
  /\ TileAfterTile
  /\ last.arg = Obj([size |-> Integer(512)])
  /\ ValidTileOptions
  /\ last.err = "format"
  /\ options.formatOut = "dz"
  /\ options.tileSize = 512

====
